---- MODULE Spec2Model ----
(***************************************************************************)
(* Model of the GMAT documentation search server:                          *)
(*   - SearchEngine (utils/search.ts): loadCache, cosineSimilarity,        *)
(*     search, getStats;                                                    *)
(*   - the cache store (utils/cache.ts): saveCache, loadCache, clearCache, *)
(*     getCacheInfo;                                                        *)
(*   - the embedder (utils/embedder.ts): embedBatch, generateEmbeddings;   *)
(*   - the parser (utils/parser.ts): generateChunkId, cleanText,           *)
(*     parseAndChunk, on the sibling elements of a page's content root;   *)
(*   - the splitter (splitLargeChunk and its helpers), called directly;   *)
(*   - the setup run (setup.ts main);                                      *)
(*   - the scraper (scrapePage, scrapeAll);                                *)
(*   - the server (index.ts: module body, main, the CallTool handler).     *)
(*                                                                         *)
(* JavaScript values that cross the JSON boundary are tagged records:      *)
(*   [t |-> "undefined"], [t |-> "null"], [t |-> "number", v |-> n],       *)
(*   [t |-> "array", v |-> <<...>>], and for a string either               *)
(*   [t |-> "string", v |-> "abc"] (ids, names, hrefs) or                  *)
(*   [t |-> "text", v |-> <<"a", "b", "c">>] (content, kept as a sequence  *)
(*   of characters because the embedder measures and cuts it).             *)
(* A file is [kind |-> "absent"], [kind |-> "garbage"] (bytes JSON.parse   *)
(* rejects), [kind |-> "partial", of |-> doc] (a prefix of the text of     *)
(* doc, which JSON.parse rejects too) or a parsed-JSON document            *)
(* [kind |-> "json", timestamp, version, chunks, totalChunks].             *)
(*                                                                         *)
(* A similarity score dot/(sqrt(normA)*sqrt(normB)) is the double          *)
(* [num |-> dot, sq |-> normA*normB, ulps |-> k]: the k-th double above    *)
(* (below, for k < 0) the double nearest the real number num/sqrt(sq).     *)
(* k is what binary64 arithmetic yields for the expression of              *)
(* cosineSimilarity (IeeeUlps).  Thresholds p/q are                        *)
(* [num |-> p, sq |-> q*q, ulps |-> 0].                                    *)
(***************************************************************************)
EXTENDS Integers, Sequences, FiniteSets, TLC

VARIABLES
    disk,           \* [cache |-> file, tmp |-> file]: embeddings.json and embeddings.json.tmp
    chunks,         \* SearchEngine.chunks (a JS value)
    isLoaded,       \* SearchEngine.isLoaded
    loadCompleted,  \* history: some SearchEngine.loadCache call has returned normally
    out,            \* outcome of the last call made on the engine
    run,            \* the setup process (setup.ts main): position, arguments, exit status
    gen,            \* the locals of generateEmbeddings
    save,           \* the locals of saveCache
    rt,             \* a saveCache / loadCache round trip of the cache store
    call,           \* a direct call of one function of the pipeline: arguments, result
    srv             \* the server process (index.ts main): position, exit status, last response

vars == <<disk, chunks, isLoaded, loadCompleted, out, run, gen, save, rt, call, srv>>
engineVars == <<chunks, isLoaded, loadCompleted, out>>
setupVars == <<run, gen, save>>

\* ------------------------------------------------------------------ bounds

\* longest corpus (number of chunks) of an initial cache file
MaxChunks == 3

\* ------------------------------------------------------------------ JS values

Undef == [t |-> "undefined"]
Null == [t |-> "null"]
Str(s) == [t |-> "string", v |-> s]
Txt(s) == [t |-> "text", v |-> s]
Num(n) == [t |-> "number", v |-> n]
Arr(s) == [t |-> "array", v |-> s]

IsArray(x) == x.t = "array"

\* !x for the value kinds of the model: undefined and "" are falsy, arrays are truthy
Falsy(x) ==
    \/ x.t \in {"undefined", "null"}
    \/ (x.t = "string" /\ x.v = "")
    \/ (x.t = "text" /\ x.v = <<>>)
    \/ (x.t = "number" /\ x.v = 0)

Min(a, b) == IF a <= b THEN a ELSE b
Max(a, b) == IF a >= b THEN a ELSE b

\* a bug the claims must exclude: the slice stops one element early
slice0_OneShort(s, end) ==
    LET k == IF end < 0 THEN Max(Len(s) + end, 0) ELSE Min(end, Len(s))
    IN  SubSeq(s, 1, k - 1)

\* Array.prototype.slice(0, end) on a sequence
slice0(s, end) ==
    LET k == IF end < 0 THEN Max(Len(s) + end, 0) ELSE Min(end, Len(s))
    IN  SubSeq(s, 1, k)

\* ------------------------------------------------------------------ files

AbsentFile == [kind |-> "absent"]
GarbageFile == [kind |-> "garbage"]
PartialFile(doc) == [kind |-> "partial", of |-> doc]

\* the object literal of saveCache, as JSON.stringify writes it
CacheDoc(chunkArr) ==
    [kind |-> "json", timestamp |-> Str("T"), version |-> Str("1.0"),
     chunks |-> chunkArr,
     totalChunks |-> IF IsArray(chunkArr) THEN Num(Len(chunkArr.v)) ELSE Undef]

MkChunk(id, pageName, href, fullContent, embedding) ==
    [id |-> id, pageName |-> pageName, href |-> href,
     fullContent |-> fullContent, embedding |-> embedding]

\* ------------------------------------------------------------------ scores

\* the double nearest num/sqrt(sq)
Score(num, sq) == [num |-> num, sq |-> sq, ulps |-> 0]

\* x.num/sqrt(x.sq) >= y.num/sqrt(y.sq) over the reals  (sq > 0)
RealGE(x, y) ==
    IF x.num >= 0
    THEN IF y.num <= 0 THEN TRUE
         ELSE x.num * x.num * y.sq >= y.num * y.num * x.sq
    ELSE IF y.num >= 0 THEN FALSE
         ELSE x.num * x.num * y.sq <= y.num * y.num * x.sq

\* x >= y for two doubles: the real numbers they approximate decide, and
\* between two approximations of one real number the offsets decide (the
\* scores of the model lie many doubles apart unless the real numbers agree)
ScoreGE(x, y) ==
    IF RealGE(x, y) /\ RealGE(y, x) THEN x.ulps >= y.ulps ELSE RealGE(x, y)

ScoreGT(x, y) == ~ScoreGE(y, x)

RECURSIVE Dot(_, _)
Dot(a, b) == IF a = <<>> THEN 0 ELSE Head(a) * Head(b) + Dot(Tail(a), Tail(b))

\* largest squared norm the rounding table covers
MaxNorm == 5

Abs(n) == IF n < 0 THEN -n ELSE n

\* <<dot, normA, normB>> with 0 < dot and normA <= normB <= MaxNorm for which
\* the binary64 value of dot / (Math.sqrt(normA) * Math.sqrt(normB)), each
\* operation rounded to nearest, is not the double nearest dot/sqrt(normA*normB):
\* it lies one double above, one below, two below
UlpsPlus1 == {<<1, 1, 3>>, <<1, 3, 3>>, <<1, 3, 4>>, <<2, 3, 3>>, <<2, 3, 4>>,
              <<3, 3, 3>>, <<3, 3, 4>>}
UlpsMinus1 == {<<1, 1, 2>>, <<1, 2, 3>>, <<1, 2, 4>>, <<1, 3, 5>>, <<2, 2, 3>>,
               <<2, 2, 4>>, <<2, 3, 5>>, <<3, 5, 5>>}
UlpsMinus2 == {<<1, 2, 2>>, <<1, 5, 5>>, <<2, 2, 2>>, <<2, 5, 5>>, <<4, 5, 5>>,
               <<5, 5, 5>>}

\* the rounding of dotProduct / (Math.sqrt(normA) * Math.sqrt(normB)) for
\* integer sums of at most MaxNorm (sums of small integers are exact); the
\* expression is symmetric in the norms and odd in the dot product
IeeeUlps(dot, normA, normB) ==
    LET t == <<Abs(dot), Min(normA, normB), Max(normA, normB)>>
        k == IF t \in UlpsPlus1 THEN 1
             ELSE IF t \in UlpsMinus1 THEN -1
             ELSE IF t \in UlpsMinus2 THEN -2
             ELSE 0
    IN  CASE normA \in 1..MaxNorm /\ normB \in 1..MaxNorm ->
                 IF dot < 0 THEN -k ELSE k

\* a bug the claims must exclude: a zero norm is not tested and the division
\* 0 / 0 yields NaN
quotient_NoZeroCheck(dot, normA, normB) ==
    IF normA = 0 \/ normB = 0 THEN [num |-> 0, sq |-> 0, ulps |-> 0]
    ELSE [num |-> dot, sq |-> normA * normB, ulps |-> IeeeUlps(dot, normA, normB)]

\* if (normA === 0 || normB === 0) return 0;
\* return dotProduct / (Math.sqrt(normA) * Math.sqrt(normB));
quotient(dot, normA, normB) ==
    IF normA = 0 \/ normB = 0 THEN Score(0, 1)
    ELSE [num |-> dot, sq |-> normA * normB, ulps |-> IeeeUlps(dot, normA, normB)]

\* ------------------------------------------------------------------ SearchEngine

\* a bug the claims must exclude: the length check of cosineSimilarity is
\* missing and the loop runs over the common prefix
cosineSimilarity_NoLengthCheck(a, b) ==
    IF b.t = "undefined" THEN [err |-> "TypeError"]
    ELSE LET bv == IF b.t = "array" THEN b.v ELSE <<>>
             n == Min(Len(a), Len(bv))
             a1 == SubSeq(a, 1, n)
             b1 == SubSeq(bv, 1, n)
             normA == Dot(a1, a1)
             normB == Dot(b1, b1)
         IN  [err |-> "none",
              score |-> quotient(Dot(a1, b1), normA, normB)]

\* cosineSimilarity(a, b): a is the query vector, b the JS value of chunk.embedding
cosineSimilarity(a, b) ==
    IF b.t = "undefined" THEN [err |-> "TypeError"]            \* b.length of undefined
    ELSE IF b.t # "array" THEN [err |-> "DimensionMismatch"]   \* a.length !== undefined
    ELSE IF Len(a) # Len(b.v) THEN [err |-> "DimensionMismatch"]
    ELSE LET normA == Dot(a, a)
             normB == Dot(b.v, b.v)
         IN  [err |-> "none",
              score |-> quotient(Dot(a, b.v), normA, normB)]

\* a bug the claims must exclude: every scored chunk is pushed
keepsResult_Always(score, minScore) == TRUE

\* if (score >= minScore)
keepsResult(score, minScore) == ScoreGE(score, minScore)

\* the loop of search over this.chunks: the first throw aborts the scan
RECURSIVE ScanChunks(_, _, _, _, _)
ScanChunks(cs, i, q, minScore, acc) ==
    IF i > Len(cs) THEN [err |-> "none", results |-> acc]
    ELSE LET c == cosineSimilarity(q, cs[i].embedding)
         IN  IF c.err # "none" THEN [err |-> c.err, results |-> <<>>]
             ELSE ScanChunks(cs, i + 1, q, minScore,
                     IF keepsResult(c.score, minScore)
                     THEN Append(acc, [chunk |-> cs[i], score |-> c.score])
                     ELSE acc)

\* results.sort((a, b) => b.score - a.score): a stable sort, descending by score
RECURSIVE InsertDesc(_, _)
InsertDesc(sorted, r) ==
    IF sorted = <<>> THEN <<r>>
    ELSE IF ScoreGE(Head(sorted).score, r.score)
         THEN <<Head(sorted)>> \o InsertDesc(Tail(sorted), r)
         ELSE <<r>> \o sorted

RECURSIVE SortDescFrom(_, _, _)
SortDescFrom(rs, i, acc) ==
    IF i > Len(rs) THEN acc ELSE SortDescFrom(rs, i + 1, InsertDesc(acc, rs[i]))

\* a bug the claims must exclude: the results are returned in corpus order
sortByScoreDesc_NoSort(rs) == rs

\* a bug the claims must exclude: the sort is not stable, results of one score
\* come out in reverse corpus order
sortByScoreDesc_TiesReversed(rs) ==
    SortDescFrom([i \in 1..Len(rs) |-> rs[Len(rs) + 1 - i]], 1, <<>>)

sortByScoreDesc(rs) == SortDescFrom(rs, 1, <<>>)

SearchOutcome(kind, results, q, topK, minScore) ==
    [op |-> "search", kind |-> kind, results |-> results,
     q |-> q, topK |-> topK, minScore |-> minScore]

\* a bug the claims must exclude: search does not test isLoaded
search_NoLoadedCheck(loaded, chunksVal, q, topK, minScore) ==
    IF ~IsArray(chunksVal)
    THEN SearchOutcome("TypeError", <<>>, q, topK, minScore)
    ELSE LET scan == ScanChunks(chunksVal.v, 1, q, minScore, <<>>)
         IN  IF scan.err # "none"
             THEN SearchOutcome(scan.err, <<>>, q, topK, minScore)
             ELSE SearchOutcome("ok", slice0(sortByScoreDesc(scan.results), topK),
                                q, topK, minScore)

\* SearchEngine.search as a function of the engine's fields and its arguments
search(loaded, chunksVal, q, topK, minScore) ==
    IF ~loaded THEN SearchOutcome("NotLoaded", <<>>, q, topK, minScore)
    ELSE IF ~IsArray(chunksVal)                      \* for..of over a non-iterable
         THEN SearchOutcome("TypeError", <<>>, q, topK, minScore)
    ELSE LET scan == ScanChunks(chunksVal.v, 1, q, minScore, <<>>)
         IN  IF scan.err # "none"
             THEN SearchOutcome(scan.err, <<>>, q, topK, minScore)
             ELSE SearchOutcome("ok", slice0(sortByScoreDesc(scan.results), topK),
                                q, topK, minScore)

\* SearchEngine.getStats as a function of the engine's fields
getStats(loaded, chunksVal) ==
    IF chunksVal.t = "undefined"
    THEN [op |-> "getStats", kind |-> "TypeError"]   \* this.chunks.length of undefined
    ELSE [op |-> "getStats", kind |-> "ok",
          totalChunks |-> IF IsArray(chunksVal) THEN Num(Len(chunksVal.v)) ELSE Undef,
          isLoaded |-> loaded]

\* a bug the claims must exclude: the fields are reset before the file is read,
\* and a failed load leaves the engine empty and unloaded
engineLoadCache_ResetsFirst(file, chunksVal, loaded) ==
    IF file.kind = "absent"
    THEN [kind |-> "CacheNotFound", chunks |-> Arr(<<>>), isLoaded |-> FALSE]
    ELSE IF file.kind # "json"
    THEN [kind |-> "SyntaxError", chunks |-> Arr(<<>>), isLoaded |-> FALSE]
    ELSE [kind |-> "ok", chunks |-> file.chunks, isLoaded |-> TRUE]

\* a bug the claims must exclude: the load publishes the chunks read so far
\* (the first one) and sets the flag
engineLoadCache_PartialRead(file, chunksVal, loaded) ==
    IF file.kind = "absent"
    THEN [kind |-> "CacheNotFound", chunks |-> chunksVal, isLoaded |-> loaded]
    ELSE IF file.kind # "json"
    THEN [kind |-> "SyntaxError", chunks |-> chunksVal, isLoaded |-> loaded]
    ELSE [kind |-> "ok",
          chunks |-> IF IsArray(file.chunks)
                     THEN Arr(SubSeq(file.chunks.v, 1, Min(1, Len(file.chunks.v))))
                     ELSE file.chunks,
          isLoaded |-> TRUE]

\* SearchEngine.loadCache as a function of the file at cachePath and the engine's
\* fields: existsSync, then JSON.parse(readFileSync), then the two assignments
engineLoadCache(file, chunksVal, loaded) ==
    IF file.kind = "absent"
    THEN [kind |-> "CacheNotFound", chunks |-> chunksVal, isLoaded |-> loaded]
    ELSE IF file.kind # "json"
    THEN [kind |-> "SyntaxError", chunks |-> chunksVal, isLoaded |-> loaded]
    ELSE [kind |-> "ok", chunks |-> file.chunks, isLoaded |-> TRUE]

\* ------------------------------------------------------------------ inputs

\* embeddings of the well-formed corpora
EmbeddingPool == {<<1, 0>>, <<2, 1>>, <<0, 0>>, <<-1, 0>>}

\* query vectors: empty, of another length, of the corpus's length (one of them zero)
Queries == {<<>>, <<1>>, <<1, 0>>, <<1, 1>>, <<0, 0>>}

\* topK as a client may send it (index.ts passes it on unchecked); 10 is the default
TopKs == {-1, 1, 10}

\* minScore 0, 0.1 (the default) and 0.9
MinScores == {Score(0, 1), Score(1, 100), Score(9, 100)}

ChunkAt(i, emb) ==
    MkChunk(Str("page#c" \o ToString(i)), Str("Page"), Str("page.html"),
            Txt(<<"t">>), Arr(emb))

\* a well-formed corpus with the given embeddings, ids distinct by position
Corpus(embs) == Arr([i \in 1..Len(embs) |-> ChunkAt(i, embs[i])])

SeqsUpTo(S, n) == UNION {[1..k -> S] : k \in 0..n}

WellFormedDocs == {CacheDoc(Corpus(e)) : e \in SeqsUpTo(EmbeddingPool, MaxChunks)}

ChunkFields == {"id", "pageName", "href", "fullContent", "embedding"}

\* files the engine must refuse: no file, not JSON, no chunks array, a chunk
\* lacking a field, an embedding that is no sequence
MalformedDocs ==
    {AbsentFile, GarbageFile, CacheDoc(Undef), CacheDoc(Num(7))}
    \cup {CacheDoc(Arr(<<ChunkAt(1, <<1, 0>>),
                         [ChunkAt(2, <<1, 1>>) EXCEPT ![f] = Undef]>>)) : f \in ChunkFields}
    \cup {CacheDoc(Arr(<<[ChunkAt(1, <<1, 0>>) EXCEPT !.embedding = Num(3)]>>))}

InitialFiles == WellFormedDocs \cup MalformedDocs

\* ------------------------------------------------------------------ idle parts

\* no setup process is running
IdleRun == [pc |-> "idle"]
IdleGen == [pc |-> "idle"]
IdleSave == [pc |-> "idle"]
IdleRt == [pc |-> "idle"]
IdleCall == [pc |-> "idle"]

\* no server process is running
IdleSrv == [pc |-> "idle"]

\* ------------------------------------------------------------------ engine actions

Init ==
    /\ disk \in {[cache |-> f, tmp |-> AbsentFile] : f \in InitialFiles}
    /\ chunks = Arr(<<>>)
    /\ isLoaded = FALSE
    /\ loadCompleted = FALSE
    /\ out = [op |-> "none", kind |-> "none"]
    /\ run = IdleRun
    /\ gen = IdleGen
    /\ save = IdleSave
    /\ rt = IdleRt
    /\ call = IdleCall
    /\ srv = IdleSrv

\* await searchEngine.loadCache()
LoadCache ==
    LET r == engineLoadCache(disk.cache, chunks, isLoaded)
    IN  /\ chunks' = r.chunks
        /\ isLoaded' = r.isLoaded
        /\ loadCompleted' = (loadCompleted \/ r.kind = "ok")
        /\ out' = [op |-> "loadCache", kind |-> r.kind]
        /\ UNCHANGED <<disk, setupVars, rt, call, srv>>

\* a bug the claims must exclude: search sorts this.chunks itself, in place
Search_SortsCorpusInPlace(q, topK, minScore) ==
    LET r == search(isLoaded, chunks, q, topK, minScore)
        all == ScanChunks(chunks.v, 1, q, Score(-1, 1), <<>>)
        sorted == sortByScoreDesc(all.results)
    IN  /\ out' = r
        /\ chunks' = IF r.kind = "ok"
                     THEN Arr([i \in 1..Len(sorted) |-> sorted[i].chunk])
                     ELSE chunks
        /\ UNCHANGED <<disk, isLoaded, loadCompleted, setupVars, rt, call, srv>>

\* await searchEngine.search(q, topK, minScore)
Search(q, topK, minScore) ==
    /\ out' = search(isLoaded, chunks, q, topK, minScore)
    /\ UNCHANGED <<disk, chunks, isLoaded, loadCompleted, setupVars, rt, call, srv>>

\* searchEngine.getStats()
GetStats ==
    /\ out' = getStats(isLoaded, chunks)
    /\ UNCHANGED <<disk, chunks, isLoaded, loadCompleted, setupVars, rt, call, srv>>

SearchAny == \E q \in Queries, topK \in TopKs, minScore \in MinScores : Search(q, topK, minScore)

Next ==
    \/ LoadCache
    \/ SearchAny
    \/ GetStats

Spec == Init /\ [][Next]_vars

\* ------------------------------------------------------------------ cache store (utils/cache.ts)

\* the two paths of saveCache, as fields of disk
cachePath == "cache"

\* a bug the claims must exclude: the new content is written straight to cachePath
tempPath_IsCachePath == "cache"

\* cachePath + '.tmp'
tempPath == "tmp"

\* JSON.stringify of one EmbeddedChunk: a key whose value is undefined is left
\* out (it reads back as undefined), the other values are written as they are
jsonOfChunk(c) == [f \in ChunkFields |-> c[f]]

\* the text saveCache writes for embeddedChunks (a sequence of EmbeddedChunks)
saveCacheDoc(embeddedChunks) ==
    CacheDoc(Arr([i \in 1..Len(embeddedChunks) |-> jsonOfChunk(embeddedChunks[i])]))

\* the validation loop of loadCache: some chunk fails it
invalidChunkIn(cs) ==
    \E i \in 1..Len(cs) :
        \/ Falsy(cs[i].id) \/ Falsy(cs[i].pageName) \/ Falsy(cs[i].href)
        \/ Falsy(cs[i].fullContent) \/ Falsy(cs[i].embedding)
        \/ ~IsArray(cs[i].embedding)

\* loadCache() of the cache store: the chunks array, or null
loadCache(file) ==
    IF file.kind = "absent" THEN Null
    ELSE IF file.kind # "json" THEN Null                 \* JSON.parse throws; caught
    ELSE IF Falsy(file.chunks) \/ ~IsArray(file.chunks) THEN Null
    ELSE IF invalidChunkIn(file.chunks.v) THEN Null
    ELSE file.chunks

\* getCacheInfo().exists
getCacheInfo(file) == [exists |-> file.kind # "absent"]

\* ------------------------------------------------------------------ embedder (utils/embedder.ts)

MAX_BATCH_SIZE == 50
MAX_RETRIES == 3
MAX_TOKENS_PER_BATCH == 6000
MAX_TOKENS_PER_INPUT == 7000
DefaultSplitTokens == 1000

\* a bug the claims must exclude: forty characters are taken for one token
estimateTokens_FortyCharsPerToken(text) == (Len(text) + 39) \div 40

\* Math.ceil(text.length / 4)
estimateTokens(text) == (Len(text) + 3) \div 4

\* \s, for the characters of the model
IsSpace(c) == c \in {" ", "\n", "\t"}

\* the indices from..to of a text, in increasing order
IndexSeq(from, to) == [k \in 1..(IF to >= from THEN to - from + 1 ELSE 0) |-> from + k - 1]

\* s without its leading whitespace
trimStart(s) ==
    IF s = <<>> \/ ~IsSpace(s[1]) THEN s
    ELSE LET kept == SelectSeq(IndexSeq(1, Len(s)), LAMBDA i : ~IsSpace(s[i]))
         IN  IF kept = <<>> THEN <<>> ELSE SubSeq(s, kept[1], Len(s))

\* s without its trailing whitespace
trimEnd(s) ==
    IF s = <<>> \/ ~IsSpace(s[Len(s)]) THEN s
    ELSE LET kept == SelectSeq(IndexSeq(1, Len(s)), LAMBDA i : ~IsSpace(s[i]))
         IN  IF kept = <<>> THEN <<>> ELSE SubSeq(s, 1, kept[Len(kept)])

\* String.prototype.trim
trim(s) == trimEnd(trimStart(s))

\* text.split('\n\n') from index pos: the piece up to the next '\n\n' at or
\* after pos, then the rest; acc holds the pieces before pos
RECURSIVE splitParagraphs(_, _, _)
splitParagraphs(s, pos, acc) ==
    LET seps == SelectSeq(IndexSeq(pos, Len(s) - 1), LAMBDA i : s[i] = "\n" /\ s[i + 1] = "\n")
    IN  IF seps = <<>> THEN Append(acc, SubSeq(s, pos, Len(s)))
        ELSE splitParagraphs(s, seps[1] + 2, Append(acc, SubSeq(s, pos, seps[1] - 1)))

NonBlank(p) == Len(trim(p)) > 0

\* the index of the first of . ! ? at or after j that is followed by a space
\* or ends the text; 0 when there is none  ( /(.*?[.!?](?:\s|$))/gs )
sentenceEnd(text, j) ==
    LET ends == SelectSeq(IndexSeq(j, Len(text)),
                             LAMBDA i : /\ text[i] \in {".", "!", "?"}
                                        /\ (i = Len(text) \/ IsSpace(text[i + 1])))
    IN  IF ends = <<>> THEN 0 ELSE ends[1]

\* the exec loop of splitBySentences from index pos (1-based), then the rest
RECURSIVE sentenceParts(_, _, _)
sentenceParts(text, pos, acc) ==
    LET e == sentenceEnd(text, pos)
        last == IF e = 0 THEN 0 ELSE IF e < Len(text) THEN e + 1 ELSE e
    IN  IF pos > Len(text) THEN acc
        ELSE IF e = 0 THEN Append(acc, SubSeq(text, pos, Len(text)))
        ELSE sentenceParts(text, last + 1, Append(acc, SubSeq(text, pos, last)))

trimAll(parts) == [i \in 1..Len(parts) |-> trim(parts[i])]

splitBySentences(text) ==
    SelectSeq(trimAll(sentenceParts(text, 1, <<>>)), LAMBDA p : Len(p) > 0)

\* a bug the claims must exclude: the window is cut without the 0.9 margin,
\* one character too long
charLimitOf_NoMargin(maxTokens) == Max(4 * maxTokens + 1, 1)

\* Math.floor(Math.max(4 * maxTokens * 0.9, 1))
charLimitOf(maxTokens) == Max((36 * maxTokens) \div 10, 1)

RECURSIVE slicesFrom(_, _, _, _)
slicesFrom(text, i, charLimit, acc) ==
    IF i > Len(text) THEN acc
    ELSE slicesFrom(text, i + charLimit, charLimit,
                    Append(acc, SubSeq(text, i, Min(i + charLimit - 1, Len(text)))))

hardSliceByCharacters(text, maxTokens) == slicesFrom(text, 1, charLimitOf(maxTokens), <<>>)

\* { ...chunk, id: `${chunk.id}_part_${n}`, fullContent: content }
childOf(chunk, n, content) ==
    [chunk EXCEPT !.id = Str(chunk.id.v \o "_part_" \o ToString(n)),
                  !.fullContent = Txt(content)]

\* a bug the claims must exclude: the part counter is not advanced
pushChild_NoIncrement(st, chunk, content) ==
    [st EXCEPT !.subs = Append(st.subs, childOf(chunk, st.n, content))]

\* the locals of splitLargeChunk: subChunks, buffer, partIndex
pushChild(st, chunk, content) ==
    [st EXCEPT !.subs = Append(st.subs, childOf(chunk, st.n, content)), !.n = st.n + 1]

\* a bug the claims must exclude: the buffer is reset without being emitted
pushBufferIfAny_DropsBuffer(st, chunk) == [st EXCEPT !.buf = <<>>]

pushBufferIfAny(st, chunk) ==
    IF Len(trim(st.buf)) = 0 THEN st
    ELSE [pushChild(st, chunk, st.buf) EXCEPT !.buf = <<>>]

RECURSIVE pushSlices(_, _, _, _)
pushSlices(st, chunk, slices, k) ==
    IF k > Len(slices) THEN st
    ELSE pushSlices(pushChild(st, chunk, slices[k]), chunk, slices, k + 1)

\* the loop over the sentences of one oversized paragraph; st.sbuf is sentenceBuffer
RECURSIVE packSentences(_, _, _, _, _)
packSentences(st, chunk, sentences, k, maxTokens) ==
    IF k > Len(sentences)
    THEN IF st.sbuf # <<>> THEN [pushChild(st, chunk, st.sbuf) EXCEPT !.sbuf = <<>>] ELSE st
    ELSE LET sentence == sentences[k]
             tentative == st.sbuf \o (IF st.sbuf # <<>> THEN <<" ">> ELSE <<>>) \o sentence
             flushed == IF st.sbuf # <<>>
                        THEN [pushChild(st, chunk, st.sbuf) EXCEPT !.sbuf = <<>>]
                        ELSE st
             next == IF estimateTokens(tentative) > maxTokens
                     THEN IF estimateTokens(sentence) > maxTokens
                          THEN pushSlices(flushed, chunk,
                                          hardSliceByCharacters(sentence, maxTokens), 1)
                          ELSE [flushed EXCEPT !.sbuf = sentence]
                     ELSE [st EXCEPT !.sbuf = tentative]
         IN  packSentences(next, chunk, sentences, k + 1, maxTokens)

\* the loop over the paragraphs
RECURSIVE packParagraphs(_, _, _, _, _)
packParagraphs(st, chunk, paragraphs, k, maxTokens) ==
    IF k > Len(paragraphs) THEN st
    ELSE LET paragraph == trim(paragraphs[k])
             tentative == st.buf \o (IF st.buf # <<>> THEN <<"\n", "\n">> ELSE <<>>)
                                 \o paragraph
             next == IF estimateTokens(paragraph) > maxTokens
                     THEN packSentences(pushBufferIfAny(st, chunk), chunk,
                                        splitBySentences(paragraph), 1, maxTokens)
                     ELSE IF estimateTokens(tentative) > maxTokens
                          THEN [pushBufferIfAny(st, chunk) EXCEPT !.buf = paragraph]
                          ELSE [st EXCEPT !.buf = tentative]
         IN  packParagraphs(next, chunk, paragraphs, k + 1, maxTokens)

splitLargeChunk(chunk, maxTokens) ==
    IF estimateTokens(chunk.fullContent.v) <= maxTokens THEN <<chunk>>
    ELSE LET paragraphs == SelectSeq(splitParagraphs(chunk.fullContent.v, 1, <<>>), NonBlank)
             st0 == [subs |-> <<>>, buf |-> <<>>, n |-> 0, sbuf |-> <<>>]
             st == pushBufferIfAny(packParagraphs(st0, chunk, paragraphs, 1, maxTokens), chunk)
         IN  IF Len(st.subs) > 0 THEN st.subs ELSE <<chunk>>

\* the vector the embedding service returns for a text (one fixed function of it)
EmbeddingOf(text) == <<Len(text), 1>>

\* the two passes before the batching loop: split every chunk, then split again
\* what is still above the per-input ceiling
RECURSIVE flatMapSplit(_, _, _, _)
flatMapSplit(cs, k, ceiling, maxTokens) ==
    IF k > Len(cs) THEN <<>>
    ELSE (IF estimateTokens(cs[k].fullContent.v) > ceiling
          THEN splitLargeChunk(cs[k], maxTokens)
          ELSE <<cs[k]>>)
         \o flatMapSplit(cs, k + 1, ceiling, maxTokens)

ReSplitTokens == Min(DefaultSplitTokens, MAX_TOKENS_PER_INPUT - 200)

normalizedChunksOf(cs) ==
    flatMapSplit(flatMapSplit(cs, 1, DefaultSplitTokens, DefaultSplitTokens),
                 1, MAX_TOKENS_PER_INPUT, ReSplitTokens)

\* normalizedChunks.splice(i, 1, ...reSplit)
splice(cs, i, pieces) == SubSeq(cs, 1, i - 1) \o pieces \o SubSeq(cs, i + 1, Len(cs))

\* currentBatch.map(c => c.fullContent)
textsOf(batch) == [j \in 1..Len(batch) |-> batch[j].fullContent.v]

\* Math.pow(2, n) for the exponents the retries reach
Pow2(n) == IF n = 0 THEN 1 ELSE IF n = 1 THEN 2 ELSE IF n = 2 THEN 4 ELSE 8

\* await delay(baseDelay + jitter) in the catch of embedBatch after a failed
\* attempt; the history g.delays keeps baseDelay (the jitter is a random
\* addition below 1000 ms)
backoffDelay(attempt) ==
    [kind |-> "backoff", ms |-> Min(1000 * Pow2(attempt - 1), 10000)]

\* await delay(1000) after a batch of the loop
pacingDelay == [kind |-> "pacing", ms |-> 1000]

\* openai.embeddings.create({ input: texts }) is called: the request joins
\* the history g.requests; a retry (attempt > 1) comes after the backoff
\* delay of the attempt before it
embedBatch(g, attempt) ==
    [g EXCEPT !.attempt = attempt,
              !.delays = IF attempt > 1
                         THEN Append(g.delays, backoffDelay(attempt - 1))
                         ELSE g.delays,
              !.requests = Append(g.requests,
                                  [texts |-> textsOf(g.batch), attempt |-> attempt])]

\* a bug the claims must exclude: the token budget of a batch is not checked
mustFlush_IgnoresTokens(batch, batchTokens, chunkTokens) == Len(batch) >= MAX_BATCH_SIZE

\* a bug the claims must exclude: a batch is closed one chunk early
mustFlush_OneEarly(batch, batchTokens, chunkTokens) ==
    \/ Len(batch) >= MAX_BATCH_SIZE - 1
    \/ (Len(batch) > 0 /\ batchTokens + chunkTokens > MAX_TOKENS_PER_BATCH)

\* the test that closes the current batch before the pending chunk
mustFlush(batch, batchTokens, chunkTokens) ==
    \/ Len(batch) >= MAX_BATCH_SIZE
    \/ (Len(batch) > 0 /\ batchTokens + chunkTokens > MAX_TOKENS_PER_BATCH)

\* the batching loop of generateEmbeddings from index g.i, run to its next
\* await: the embedBatch call of a full batch ("embed"), or of the final batch
\* ("embedFinal"), or the return ("return").  When the re-split of an oversized
\* chunk returns the chunk itself, the splice and the step back of i leave the
\* locals as they were and the iteration repeats without end: the loop stays
\* at "loop" and reaches no await.
RECURSIVE runLoop(_)
runLoop(g) ==
    IF g.i > Len(g.normalized)
    THEN IF Len(g.batch) > 0
         THEN embedBatch([g EXCEPT !.pc = "embedFinal"], 1)
         ELSE [g EXCEPT !.pc = "return"]
    ELSE LET chunk == g.normalized[g.i]
             chunkTokens == estimateTokens(chunk.fullContent.v)
         IN  IF mustFlush(g.batch, g.batchTokens, chunkTokens)
             THEN embedBatch([g EXCEPT !.pc = "embed"], 1)
             ELSE IF chunkTokens > MAX_TOKENS_PER_INPUT
             THEN IF splitLargeChunk(chunk, ReSplitTokens) = <<chunk>>
                  THEN [g EXCEPT !.pc = "loop"]
                  ELSE runLoop([g EXCEPT !.normalized =
                              splice(g.normalized, g.i, splitLargeChunk(chunk, ReSplitTokens))])
             ELSE runLoop([g EXCEPT !.batch = Append(g.batch, chunk),
                                    !.batchTokens = g.batchTokens + chunkTokens,
                                    !.i = g.i + 1])

\* generateEmbeddings(chunks, apiKey) up to its first await
generateEmbeddingsBegin(cs) ==
    runLoop([pc |-> "loop", input |-> cs, normalized |-> normalizedChunksOf(cs), i |-> 1,
             batch |-> <<>>, batchTokens |-> 0, embedded |-> <<>>, attempt |-> 1,
             requests |-> <<>>, delays |-> <<>>])

\* a bug the claims must exclude: every chunk of the batch gets the first vector
embedCurrentBatch_FirstVector(g) ==
    g.embedded \o [j \in 1..Len(g.batch) |->
                     [g.batch[j] EXCEPT !.embedding = Arr(EmbeddingOf(g.batch[1].fullContent.v))]]

\* { ...currentBatch[j], embedding: embeddings[j] } for the whole batch
embedCurrentBatch(g) ==
    g.embedded \o [j \in 1..Len(g.batch) |->
                     [g.batch[j] EXCEPT !.embedding = Arr(EmbeddingOf(g.batch[j].fullContent.v))]]

\* ------------------------------------------------------------------ direct calls of splitLargeChunk

\* longest content of a chunk handed to splitLargeChunk
MaxTextLen == 6

\* the characters of a content: a letter, a sentence end, a space, a newline
Alphabet == {"a", ".", " ", "\n"}

\* longest second paragraph of the two-paragraph contents
MaxParagraphLen == 7

\* a short paragraph before or after a paragraph that may need sentence
\* splitting and character windows
ShortParagraphs == {<<"a">>, <<"a", ".">>}
LongParagraphs == SeqsUpTo({"a", ".", " "}, MaxParagraphLen)
TwoParagraphTexts ==
    {s \o <<"\n", "\n">> \o l : s \in ShortParagraphs, l \in LongParagraphs}
    \cup {l \o <<"\n", "\n">> \o s : s \in ShortParagraphs, l \in LongParagraphs}

Texts == SeqsUpTo(Alphabet, MaxTextLen) \cup TwoParagraphTexts

\* token budgets: 0 (every window is one character), 1 and 2
TokenBudgets == {0, 1, 2}

\* a chunk of the parser with the given content
SplitInput(text) == MkChunk(Str("page#s"), Str("Page"), Str("page.html"), Txt(text), Undef)

InitSplit ==
    /\ disk = [cache |-> AbsentFile, tmp |-> AbsentFile]
    /\ chunks = Arr(<<>>)
    /\ isLoaded = FALSE
    /\ loadCompleted = FALSE
    /\ out = [op |-> "none", kind |-> "none"]
    /\ run = IdleRun
    /\ gen = IdleGen
    /\ save = IdleSave
    /\ srv = IdleSrv
    /\ rt = IdleRt
    /\ call \in {[pc |-> "input", chunk |-> SplitInput(t), maxTokens |-> m] :
                    t \in Texts, m \in TokenBudgets}

\* splitLargeChunk(call.chunk, call.maxTokens)
SplitLargeChunk ==
    /\ call.pc = "input"
    /\ call' = [pc |-> "split", chunk |-> call.chunk, maxTokens |-> call.maxTokens,
                children |-> splitLargeChunk(call.chunk, call.maxTokens)]
    /\ UNCHANGED <<disk, engineVars, setupVars, rt, srv>>

NextSplit == SplitLargeChunk

SpecSplit == InitSplit /\ [][NextSplit]_vars

\* ------------------------------------------------------------------ parser (utils/parser.ts)

\* longest document (number of sibling elements of the content root)
MaxDocLen == 3

\* the characters of a text as one string
RECURSIVE StrOf(_)
StrOf(cs) == IF cs = <<>> THEN "" ELSE Head(cs) \o StrOf(Tail(cs))

\* String.prototype.toLowerCase, for the characters of the model
toLowerCase(cs) == [i \in 1..Len(cs) |-> IF cs[i] = "A" THEN "a" ELSE cs[i]]

\* \w
IsWordChar(c) == c \in {"A", "a", "b", "c", "h", "k", "n", "u", "1", "_"}

\* .replace(/[^\w\s-]/g, '')
stripNonWord(cs) == SelectSeq(cs, LAMBDA c : IsWordChar(c) \/ IsSpace(c) \/ c = "-")

\* .replace(/\s+/g, '_')
RECURSIVE underscoreSpaces(_)
underscoreSpaces(cs) ==
    IF cs = <<>> THEN <<>>
    ELSE IF IsSpace(Head(cs)) THEN <<"_">> \o underscoreSpaces(trimStart(cs))
    ELSE <<Head(cs)>> \o underscoreSpaces(Tail(cs))

\* href.replace('.html', ''), for the hrefs of the model
baseIdOf(href) == IF href = "page.html" THEN "page" ELSE href

\* generateChunkId(href, index, heading); heading is <<>> when absent or ''
generateChunkId(href, index, heading) ==
    IF heading # <<>>
    THEN baseIdOf(href) \o "#" \o StrOf(underscoreSpaces(stripNonWord(toLowerCase(heading))))
    ELSE baseIdOf(href) \o "#chunk_" \o ToString(index)

\* .replace(/\s+/g, ' ')
RECURSIVE collapseSpaces(_)
collapseSpaces(cs) ==
    IF cs = <<>> THEN <<>>
    ELSE IF IsSpace(Head(cs)) THEN <<" ">> \o collapseSpaces(trimStart(cs))
    ELSE <<Head(cs)>> \o collapseSpaces(Tail(cs))

\* cleanText: after the first replace no newline is left for the second
cleanText(cs) == trim(collapseSpaces(cs))

\* an element of the content root: a heading h1..h6 or a paragraph, with its text
Element(tag, text) == [tag |-> tag, text |-> text]
IsHeadingTag(tag) == tag \in {"h1", "h2", "h3", "h4", "h5", "h6"}
levelOf(tag) == CASE tag = "h1" -> 1 [] tag = "h2" -> 2 [] tag = "h3" -> 3
                  [] tag = "h4" -> 4 [] tag = "h5" -> 5 [] tag = "h6" -> 6

\* the positions of the elements find('h1, h2, h3, h4') returns, in document order
headingsOf(doc) == SelectSeq([i \in 1..Len(doc) |-> i],
                             LAMBDA i : doc[i].tag \in {"h1", "h2", "h3", "h4"})

\* the last position of the span that starts at heading position p: the
\* siblings up to the next heading of the same or a higher level
RECURSIVE spanEnd(_, _, _)
spanEnd(doc, p, j) ==
    IF j > Len(doc) THEN Len(doc)
    ELSE IF IsHeadingTag(doc[j].tag) /\ levelOf(doc[j].tag) <= levelOf(doc[p].tag)
    THEN j - 1
    ELSE spanEnd(doc, p, j + 1)

\* the markdown of one element: an element without text renders to nothing
turndown(el) ==
    IF trim(el.text) = <<>> THEN <<>>
    ELSE IF IsHeadingTag(el.tag) THEN <<"#", " ">> \o el.text \o <<"\n", "\n">>
    ELSE el.text \o <<"\n", "\n">>

RECURSIVE turndownAll(_, _, _)
turndownAll(doc, from, to) ==
    IF from > to THEN <<>> ELSE turndown(doc[from]) \o turndownAll(doc, from + 1, to)

\* the chunk parseAndChunk pushes for an id and a content
ParsedChunk(id, href, content) == MkChunk(Str(id), Str("Page"), Str(href), Txt(content), Undef)

\* the single chunk of a page taken whole (no heading, or no chunk from the headings)
wholePage(doc, href) ==
    LET fullContent == cleanText(turndownAll(doc, 1, Len(doc)))
    IN  IF Len(fullContent) > 0
        THEN <<ParsedChunk(generateChunkId(href, 0, <<>>), href, fullContent)>>
        ELSE <<>>

\* the loop over the headings from the i-th heading (0-based, as in the source)
RECURSIVE headingChunks(_, _, _, _)
headingChunks(doc, href, hs, i) ==
    IF i >= Len(hs) THEN <<>>
    ELSE LET p == hs[i + 1]
             headingText == trim(doc[p].text)
             fullContent == cleanText(turndownAll(doc, p, spanEnd(doc, p, p + 1)))
         IN  (IF Len(fullContent) > 0
              THEN <<ParsedChunk(generateChunkId(href, i, headingText), href, fullContent)>>
              ELSE <<>>)
             \o headingChunks(doc, href, hs, i + 1)

parseAndChunk(doc, href) ==
    LET hs == headingsOf(doc)
        made == headingChunks(doc, href, hs, 0)
    IN  IF Len(hs) = 0 THEN wholePage(doc, href)
        ELSE IF Len(made) = 0 THEN wholePage(doc, href)
        ELSE made

\* heading texts: none, two that differ and slugify alike, one that slugifies
\* to a positional anchor, one without a word character
HeadingTexts ==
    {<<>>, <<"A", " ", "b">>, <<"a", " ", " ", "b", "!">>,
     <<"c", "h", "u", "n", "k", " ", "1">>, <<"!">>}

Elements ==
    {Element(tag, text) : tag \in {"h1", "h2", "h5"}, text \in HeadingTexts}
    \cup {Element("p", <<"t">>), Element("p", <<" ">>)}

InitParse ==
    /\ disk = [cache |-> AbsentFile, tmp |-> AbsentFile]
    /\ chunks = Arr(<<>>)
    /\ isLoaded = FALSE
    /\ loadCompleted = FALSE
    /\ out = [op |-> "none", kind |-> "none"]
    /\ run = IdleRun
    /\ gen = IdleGen
    /\ save = IdleSave
    /\ srv = IdleSrv
    /\ rt = IdleRt
    /\ call \in {[pc |-> "input", doc |-> d, href |-> "page.html"] :
                    d \in SeqsUpTo(Elements, MaxDocLen)}

\* parseAndChunk(html, href) on the elements of the page
ParseAndChunk ==
    /\ call.pc = "input"
    /\ call' = [pc |-> "parsed", doc |-> call.doc, href |-> call.href,
                chunks |-> parseAndChunk(call.doc, call.href)]
    /\ UNCHANGED <<disk, engineVars, setupVars, rt, srv>>

NextParse == ParseAndChunk

SpecParse == InitParse /\ [][NextParse]_vars

\* ------------------------------------------------------------------ setup run (setup.ts main)

\* most chunks one setup run parses: one more than a full batch
MaxSetupChunks == 51

\* the chunk generateChunkId names for position k, with a content of one
\* estimated token (one to four characters, neighbours differing)
SetupChunk(k) ==
    MkChunk(Str("page#chunk_" \o ToString(k)), Str("Page"), Str("page.html"),
            Txt([i \in 1..(1 + (k % 4)) |-> "x"]), Undef)

SetupChunks(n) == [k \in 1..n |-> SetupChunk(k)]

\* a content of 1001 estimated tokens: two sentences of 500 tokens each
BigText == [i \in 1..4001 |-> IF i = 2000 THEN "." ELSE IF i = 2001 THEN " " ELSE "a"]

\* a content of 7001 estimated tokens, above MAX_TOKENS_PER_INPUT: a sentence
\* of 500 tokens and one of 26003 characters without a break
HugeText == [i \in 1..28004 |-> IF i = 2000 THEN "." ELSE IF i = 2001 THEN " " ELSE "a"]

LongChunk(name, text) ==
    MkChunk(Str("page#" \o name), Str("Page"), Str("page.html"), Txt(text), Undef)

\* what parseAndChunk hands to generateEmbeddings: up to MaxSetupChunks short
\* chunks, or short chunks around one that must be split
ParsedChunkLists ==
    {SetupChunks(n) : n \in 0..MaxSetupChunks}
    \cup {<<SetupChunk(1), LongChunk("big", BigText), SetupChunk(2)>>,
          <<SetupChunk(1), LongChunk("huge", HugeText), SetupChunk(2)>>}

\* a cache an earlier run saved
OldDoc == CacheDoc(Corpus(<<<<1, 0>>>>))

Terminated == run.pc \in {"idle", "done", "exited", "crashed"}

\* process.exit(1)
Exit1 == [run EXCEPT !.pc = "exited", !.exitCode = 1]

InitSetup ==
    /\ disk \in {[cache |-> c, tmp |-> t] :
                    c \in {AbsentFile, OldDoc, GarbageFile},
                    t \in {AbsentFile, PartialFile(OldDoc)}}
    /\ chunks = Arr(<<>>)
    /\ isLoaded = FALSE
    /\ loadCompleted = FALSE
    /\ out = [op |-> "none", kind |-> "none"]
    /\ \E force \in BOOLEAN, hasKey \in BOOLEAN :
          run = [pc |-> "start", force |-> force, hasKey |-> hasKey, exitCode |-> 0,
                 disk0 |-> disk, saveCalled |-> FALSE, embedExhausted |-> FALSE]
    /\ gen = IdleGen
    /\ save = IdleSave
    /\ rt = IdleRt
    /\ call = IdleCall
    /\ srv = IdleSrv

\* a bug the claims must exclude: an existing cache is cleared and rebuilt
\* whether or not --force was given
SetupStart_AlwaysRebuilds ==
    /\ run.pc = "start"
    /\ LET exists == getCacheInfo(disk[cachePath]).exists
       IN  run' = IF exists
                  THEN [run EXCEPT !.pc = "clear"]
                  ELSE [run EXCEPT !.pc = "env"]
    /\ UNCHANGED <<disk, engineVars, gen, save, rt, call, srv>>

\* main up to the decision to rebuild: getCacheInfo, and without --force the
\* check that the existing cache loads
SetupStart ==
    /\ run.pc = "start"
    /\ LET exists == getCacheInfo(disk[cachePath]).exists
       IN  run' = IF exists /\ ~run.force /\ loadCache(disk[cachePath]) # Null
                  THEN [run EXCEPT !.pc = "done"]
                  ELSE IF run.force /\ exists
                  THEN [run EXCEPT !.pc = "clear"]
                  ELSE [run EXCEPT !.pc = "env"]
    /\ UNCHANGED <<disk, engineVars, gen, save, rt, call, srv>>

\* clearCache(): unlinkSync(cachePath)
ClearCache ==
    /\ run.pc = "clear"
    /\ disk' = [disk EXCEPT ![cachePath] = AbsentFile]
    /\ run' = [run EXCEPT !.pc = "env"]
    /\ UNCHANGED <<engineVars, gen, save, rt, call, srv>>

\* the OPENAI_API_KEY check
ValidateEnv ==
    /\ run.pc = "env"
    /\ run' = IF run.hasKey THEN [run EXCEPT !.pc = "scrape"] ELSE Exit1
    /\ UNCHANGED <<disk, engineVars, gen, save, rt, call, srv>>

\* steps 1 to 3 of main up to the first embedding request: scrapeAll returned
\* `scraped` pages, parseAndChunk made the chunks allChunks of them
ScrapeAndParse(scraped, allChunks) ==
    /\ run.pc = "scrape"
    /\ IF scraped = 0 \/ Len(allChunks) = 0
       THEN run' = Exit1 /\ gen' = gen
       ELSE run' = [run EXCEPT !.pc = "embedding"]
            /\ gen' = generateEmbeddingsBegin(allChunks)
    /\ UNCHANGED <<disk, engineVars, save, rt, call, srv>>

\* saveCache(embeddedChunks) up to its first write: mkdirSync, the cache data
saveCacheBegin(embeddedChunks) ==
    [pc |-> "write", pre |-> disk[cachePath], doc |-> saveCacheDoc(embeddedChunks)]

\* the embedding request of the current batch succeeds
EmbedBatchOk ==
    /\ run.pc = "embedding"
    /\ gen.pc \in {"embed", "embedFinal"}
    /\ LET done == embedCurrentBatch(gen)
       IN  IF gen.pc = "embed"
           THEN /\ gen' = runLoop([gen EXCEPT !.pc = "loop", !.embedded = done,
                                             !.delays = Append(gen.delays, pacingDelay),
                                             !.batch = <<>>, !.batchTokens = 0])
                /\ UNCHANGED <<run, save>>
           ELSE /\ gen' = [gen EXCEPT !.pc = "return", !.embedded = done]
                /\ run' = [run EXCEPT !.pc = "save", !.saveCalled = TRUE]
                /\ save' = saveCacheBegin(done)
    /\ UNCHANGED <<disk, engineVars, rt, call, srv>>

\* a bug the claims must exclude: a batch whose retries are exhausted is logged
\* and skipped, and the run goes on with what was embedded
EmbedBatchFail_SkipsBatch ==
    /\ run.pc = "embedding"
    /\ gen.pc \in {"embed", "embedFinal"}
    /\ IF gen.attempt < MAX_RETRIES
       THEN /\ gen' = embedBatch(gen, gen.attempt + 1)
            /\ UNCHANGED <<run, save>>
       ELSE IF gen.pc = "embed"
       THEN /\ gen' = runLoop([gen EXCEPT !.pc = "loop", !.batch = <<>>, !.batchTokens = 0])
            /\ run' = [run EXCEPT !.embedExhausted = TRUE]
            /\ UNCHANGED save
       ELSE /\ gen' = [gen EXCEPT !.pc = "return"]
            /\ run' = [run EXCEPT !.pc = "save", !.saveCalled = TRUE, !.embedExhausted = TRUE]
            /\ save' = saveCacheBegin(gen.embedded)
    /\ UNCHANGED <<disk, engineVars, rt, call, srv>>

\* a bug the claims must exclude: the attempt counter is compared with >
\* and a fourth attempt is made
EmbedBatchFail_OneMoreAttempt ==
    /\ run.pc = "embedding"
    /\ gen.pc \in {"embed", "embedFinal"}
    /\ IF gen.attempt > MAX_RETRIES
       THEN /\ gen' = [gen EXCEPT !.pc = "thrown"]
            /\ run' = [Exit1 EXCEPT !.embedExhausted = TRUE]
       ELSE /\ gen' = embedBatch(gen, gen.attempt + 1)
            /\ run' = run
    /\ UNCHANGED <<disk, engineVars, save, rt, call, srv>>

\* the embedding request of the current batch fails: embedBatch retries it, or,
\* on attempt MAX_RETRIES, throws; generateEmbeddings rethrows and the catch
\* of main exits
EmbedBatchFail ==
    /\ run.pc = "embedding"
    /\ gen.pc \in {"embed", "embedFinal"}
    /\ IF gen.attempt >= MAX_RETRIES
       THEN /\ gen' = [gen EXCEPT !.pc = "thrown"]
            /\ run' = [Exit1 EXCEPT !.embedExhausted = TRUE]
       ELSE /\ gen' = embedBatch(gen, gen.attempt + 1)
            /\ run' = run
    /\ UNCHANGED <<disk, engineVars, save, rt, call, srv>>

\* writeFileSync(tempPath, ...) has created the file and written part of it
SaveWriteBegin ==
    /\ run.pc = "save" /\ save.pc = "write"
    /\ disk' = [disk EXCEPT ![tempPath] = PartialFile(save.doc)]
    /\ save' = [save EXCEPT !.pc = "writing"]
    /\ UNCHANGED <<engineVars, run, gen, rt, call, srv>>

\* writeFileSync(tempPath, ...) returns
SaveWriteEnd ==
    /\ run.pc = "save" /\ save.pc = "writing"
    /\ disk' = [disk EXCEPT ![tempPath] = save.doc]
    /\ save' = [save EXCEPT !.pc = "rename"]
    /\ UNCHANGED <<engineVars, run, gen, rt, call, srv>>

\* renameSync(tempPath, cachePath), statSync, and main returns
SaveRename ==
    /\ run.pc = "save" /\ save.pc = "rename"
    /\ disk' = IF tempPath = cachePath THEN disk
               ELSE [disk EXCEPT ![cachePath] = disk[tempPath], ![tempPath] = AbsentFile]
    /\ save' = [save EXCEPT !.pc = "saved"]
    /\ run' = [run EXCEPT !.pc = "done"]
    /\ UNCHANGED <<engineVars, gen, rt, call, srv>>

\* a file system call of saveCache throws (disk full, permissions): saveCache
\* rethrows and the catch of main exits
SaveFails ==
    /\ run.pc = "save" /\ save.pc \in {"write", "writing", "rename"}
    /\ save' = [save EXCEPT !.pc = "thrown"]
    /\ run' = Exit1
    /\ UNCHANGED <<disk, engineVars, gen, rt, call, srv>>

\* the process is killed
Crash ==
    /\ ~Terminated
    /\ run' = [run EXCEPT !.pc = "crashed"]
    /\ UNCHANGED <<disk, engineVars, gen, save, rt, call, srv>>

ScrapeAndParseAny ==
    \E scraped \in 0..1, allChunks \in ParsedChunkLists : ScrapeAndParse(scraped, allChunks)

NextSetup ==
    \/ SetupStart
    \/ ClearCache
    \/ ValidateEnv
    \/ ScrapeAndParseAny
    \/ EmbedBatchOk
    \/ EmbedBatchFail
    \/ SaveWriteBegin
    \/ SaveWriteEnd
    \/ SaveRename
    \/ SaveFails
    \/ Crash

SpecSetup == InitSetup /\ [][NextSetup]_vars

\* ------------------------------------------------------------------ save / load round trip

\* longest chunk sequence saved in a round trip
MaxRtChunks == 2

\* EmbeddedChunks as the pipeline types them: id and fullContent are never
\* empty; href is '' for the page at the base URL, and pageName falls back to
\* the href without '.html'; the embedding is any sequence of numbers
RtChunkPool ==
    {MkChunk(Str(id), Str(pageName), Str(href), Txt(<<"t">>), Arr(e)) :
        id \in {"a#x", "b#y"}, pageName \in {"", "Page"}, href \in {"", "a.html"},
        e \in {<<>>, <<1, 0>>}}

\* the whole of saveCache on disk d: the temp file written, then renamed
diskAfterSave(d, doc) ==
    LET w == [d EXCEPT ![tempPath] = doc]
    IN  IF tempPath = cachePath THEN w
        ELSE [w EXCEPT ![cachePath] = w[tempPath], ![tempPath] = AbsentFile]

InitRoundTrip ==
    /\ disk = [cache |-> AbsentFile, tmp |-> AbsentFile]
    /\ chunks = Arr(<<>>)
    /\ isLoaded = FALSE
    /\ loadCompleted = FALSE
    /\ out = [op |-> "none", kind |-> "none"]
    /\ run = IdleRun
    /\ gen = IdleGen
    /\ save = IdleSave
    /\ rt \in {[pc |-> "input", input |-> cs] : cs \in SeqsUpTo(RtChunkPool, MaxRtChunks)}
    /\ call = IdleCall
    /\ srv = IdleSrv

\* await saveCache(rt.input)
RtSaveCache ==
    /\ rt.pc = "input"
    /\ disk' = diskAfterSave(disk, saveCacheDoc(rt.input))
    /\ rt' = [rt EXCEPT !.pc = "saved"]
    /\ UNCHANGED <<engineVars, setupVars, call, srv>>

\* loadCache()
RtLoadCache ==
    /\ rt.pc = "saved"
    /\ rt' = [pc |-> "loaded", input |-> rt.input, result |-> loadCache(disk[cachePath])]
    /\ UNCHANGED <<disk, engineVars, setupVars, call, srv>>

NextRoundTrip ==
    \/ RtSaveCache
    \/ RtLoadCache

SpecRoundTrip == InitRoundTrip /\ [][NextRoundTrip]_vars

\* ------------------------------------------------------------------ claims on the engine

DefaultTopK == 10
DefaultMinScore == Score(1, 100)

SearchReturned == out.op = "search" /\ out.kind = "ok"

\* the score search must have computed for a chunk
ScoreOf(q, chunk) == cosineSimilarity(q, chunk.embedding).score

\* every embedding of the corpus is an array, all of one length
UniformCorpus(c) ==
    /\ IsArray(c)
    /\ \A i \in 1..Len(c.v) : IsArray(c.v[i].embedding)
    /\ \A i, j \in 1..Len(c.v) : Len(c.v[i].embedding.v) = Len(c.v[j].embedding.v)

\* the structure the specification requires of a cache's chunks field
StructurallyValid(c) ==
    /\ IsArray(c)
    /\ \A i \in 1..Len(c.v) :
          /\ \A f \in ChunkFields : c.v[i][f].t # "undefined"
          /\ IsArray(c.v[i].embedding)

\* C1: a search on an engine on which no loadCache call has completed
\* successfully fails with the not-loaded error, whatever the query vector,
\* topK and minScore; it returns no result list.
C1_SearchBeforeLoadFails ==
    (out.op = "search" /\ ~loadCompleted) => (out.kind = "NotLoaded" /\ out.results = <<>>)

\* the scenario search([], 10, 0.1) before any load, with a good cache on disk
C1_Witness ==
    /\ out.op = "search" /\ ~loadCompleted /\ out.kind = "NotLoaded"
    /\ out.q = <<>> /\ out.topK = DefaultTopK /\ out.minScore = DefaultMinScore
    /\ disk.cache.kind = "json" /\ StructurallyValid(disk.cache.chunks)

\* C2: SearchEngine.loadCache fails, and the engine stays unloaded, whenever
\* the cache is absent or structurally invalid; the engine answers no query
\* until a valid load has succeeded.
C2_LoadRejectsInvalidCache ==
    /\ isLoaded => StructurallyValid(chunks)
    /\ SearchReturned => StructurallyValid(chunks)

\* C3: the results of a search that returns are in non-increasing score order.
C3_ResultsSortedDescending ==
    SearchReturned =>
        \A i \in 1..(Len(out.results) - 1) :
            ScoreGE(out.results[i].score, out.results[i + 1].score)

\* three results with strictly decreasing scores, found in the opposite order
\* in the corpus
C3_Witness ==
    /\ SearchReturned /\ Len(out.results) = 3 /\ Len(chunks.v) = 3
    /\ ScoreGT(out.results[1].score, out.results[2].score)
    /\ ScoreGT(out.results[2].score, out.results[3].score)
    /\ out.results[1].chunk = chunks.v[3]
    /\ out.results[3].chunk = chunks.v[1]

\* C4: no element of the list search returns has a score below minScore, the
\* score being the cosine similarity of the query and the element's chunk.
C4_NoResultBelowMinScore ==
    SearchReturned =>
        \A i \in 1..Len(out.results) :
            /\ out.results[i].score = ScoreOf(out.q, out.results[i].chunk)
            /\ ScoreGE(out.results[i].score, out.minScore)

\* two chunks, one scoring below 0.1 and one above: only the latter is returned
C4_Witness ==
    /\ SearchReturned /\ out.minScore = DefaultMinScore /\ out.topK = DefaultTopK
    /\ Len(chunks.v) = 2 /\ Len(out.results) = 1
    /\ \E i \in 1..2 : ~ScoreGE(ScoreOf(out.q, chunks.v[i]), out.minScore)
    /\ ScoreGE(out.results[1].score, out.minScore)

\* the number of corpus chunks whose score is at least minScore
QualifyingCount(c, q, minScore) ==
    Cardinality({i \in 1..Len(c.v) : ScoreGE(ScoreOf(q, c.v[i]), minScore)})

\* C5: for every search that returns,
\* results.length <= min(topK, number of chunks with score >= minScore).
C5_LengthAtMostMinTopKQualifying ==
    SearchReturned =>
        Len(out.results) <= Min(out.topK, QualifyingCount(chunks, out.q, out.minScore))

\* C6: on a loaded engine, a search whose query vector's length differs from
\* the corpus's embedding length fails with the dimension-mismatch error, and
\* no search returns scores computed from vectors of different lengths.
C6_DimensionMismatchFails ==
    /\ ( /\ out.op = "search" /\ out.kind # "NotLoaded"
         /\ UniformCorpus(chunks) /\ chunks.v # <<>>
         /\ Len(out.q) # Len(chunks.v[1].embedding.v) )
       => out.kind = "DimensionMismatch"
    /\ SearchReturned =>
         \A i \in 1..Len(chunks.v) :
            /\ IsArray(chunks.v[i].embedding)
            /\ Len(chunks.v[i].embedding.v) = Len(out.q)

\* a one-component query against a loaded corpus of two-component embeddings
C6_Witness ==
    /\ out.op = "search" /\ out.kind = "DimensionMismatch" /\ isLoaded
    /\ UniformCorpus(chunks) /\ Len(chunks.v) = MaxChunks
    /\ Len(out.q) = 1 /\ Len(chunks.v[1].embedding.v) = 2

\* C7: search (returning or failing) and getStats leave the engine's corpus
\* and its loaded flag unchanged; after a query that failed with a dimension
\* mismatch, a query with a vector of the corpus's length succeeds against
\* the same corpus.
C7_QueriesLeaveEngineUnchanged ==
    /\ [][out'.op \in {"search", "getStats"} => (chunks' = chunks /\ isLoaded' = isLoaded)]_vars
    /\ []( ( /\ out.op = "search" /\ out.kind = "DimensionMismatch"
             /\ UniformCorpus(chunks) /\ chunks.v # <<>> )
           => /\ isLoaded
              /\ \A q \in Queries :
                    Len(q) = Len(chunks.v[1].embedding.v)
                    => search(isLoaded, chunks, q, DefaultTopK, DefaultMinScore).kind = "ok" )

\* a failed query on a loaded corpus, after which a valid query finds a chunk
C7_Witness ==
    /\ out.op = "search" /\ out.kind = "DimensionMismatch" /\ isLoaded
    /\ UniformCorpus(chunks) /\ chunks.v # <<>>
    /\ Len(search(isLoaded, chunks, <<1, 0>>, DefaultTopK, DefaultMinScore).results) > 0

\* ------------------------------------------------------------------ claims on the cache store and the setup run

\* C8: saveCache(chunks) followed by loadCache() returns a sequence equal to
\* the original in length, order and every field.
C8_RoundTripReturnsOriginal ==
    rt.pc = "loaded" => rt.result = Arr(rt.input)

\* C9: at every point of a saveCache execution, a failure or crash between the
\* temp-file write and the rename included, the cache path holds the complete
\* content it had when saveCache began (or no file) or the complete new
\* content, never a partial write.
C9_ReaderSeesOldOrNewCache ==
    /\ disk.cache.kind # "partial"
    /\ run.saveCalled => disk.cache \in {save.pre, save.doc}

\* the process is killed after the temp file is complete and before the rename
C9_Witness ==
    /\ run.pc = "crashed" /\ save.pc = "rename"
    /\ disk.tmp = save.doc /\ disk.cache = save.pre /\ save.pre # save.doc

\* C10: once the embedding call of a batch has failed on its last retry,
\* generateEmbeddings has thrown, saveCache is never called (neither the cache
\* file nor the temp file is written), and the run has exited with status 1.
C10_ExhaustedRetriesAbortRun ==
    run.embedExhausted =>
        /\ gen.pc = "thrown"
        /\ ~run.saveCalled /\ save = IdleSave
        /\ run.pc = "exited" /\ run.exitCode = 1
        /\ disk.tmp = run.disk0.tmp
        /\ disk.cache \in {run.disk0.cache, AbsentFile}

\* the second batch fails its last retry after the first batch was embedded
C10_Witness ==
    /\ run.embedExhausted /\ gen.attempt = MAX_RETRIES
    /\ Len(gen.embedded) = MAX_BATCH_SIZE /\ Len(gen.normalized) > MAX_BATCH_SIZE

\* C11: when a setup run, with or without --force, has ended in a fatal
\* failure before saving (retries exhausted, no page scraped, no chunk
\* produced, missing API key), a good cache that was on disk when the run
\* began is still there with the same content.
C11_FailedRunKeepsGoodCache ==
    (run.pc = "exited" /\ ~run.saveCalled /\ loadCache(run.disk0.cache) # Null)
        => disk.cache = run.disk0.cache

\* ------------------------------------------------------------------ claims on the splitter

SplitReturned == call.pc = "split"

\* splitLargeChunk has returned something else than the chunk it was given
SplitHappened == SplitReturned /\ call.children # <<call.chunk>>

\* C12: for a chunk of the data model (its content is not blank) and any
\* budget, every child splitLargeChunk(chunk, maxTokens) returns has
\* estimateTokens(fullContent) <= maxTokens, except a child of one character.
C12_ChildrenWithinBudget ==
    (SplitReturned /\ NonBlank(call.chunk.fullContent.v)) =>
        \A k \in 1..Len(call.children) :
            \/ estimateTokens(call.children[k].fullContent.v) <= call.maxTokens
            \/ Len(call.children[k].fullContent.v) = 1

\* a sentence above the budget was cut into character windows, the last one shorter
C12_Witness ==
    /\ SplitHappened /\ call.maxTokens = 1
    /\ call.chunk.fullContent.v = <<"a", "a", "a", "a", "a">>
    /\ Len(call.children) = 2
    /\ Len(call.children[1].fullContent.v) = 3

\* the characters of a text that are not whitespace, in order
NonSpaceOf(text) == SelectSeq(text, LAMBDA c : ~IsSpace(c))

\* the contents of children k.. concatenated
RECURSIVE ConcatContents(_, _)
ConcatContents(children, k) ==
    IF k > Len(children) THEN <<>>
    ELSE children[k].fullContent.v \o ConcatContents(children, k + 1)

\* C13: the contents of the children of splitLargeChunk, concatenated in
\* emission order, hold the non-whitespace characters of the parent's content,
\* each once and in the parent's order (whitespace may differ at the places
\* where paragraphs and sentences were separated).
C13_SplitterConservation ==
    SplitReturned =>
        NonSpaceOf(ConcatContents(call.children, 1)) = NonSpaceOf(call.chunk.fullContent.v)

\* two paragraphs that do not fit one child together
C13_Witness ==
    /\ SplitHappened /\ call.maxTokens = 1
    /\ call.chunk.fullContent.v = <<"a", "a", "\n", "\n", "a", ".">>
    /\ Len(call.children) = 2

\* C14: when splitLargeChunk splits a chunk, its k-th child (k = 0, 1, ...)
\* has id parentId_part_k whatever emitted it, so the ids are pairwise distinct
\* and differ from the parent's, and every child has the parent's pageName and href.
C14_ChildIdsCountUp ==
    SplitHappened =>
        /\ \A k \in 1..Len(call.children) :
              /\ call.children[k].id = Str(call.chunk.id.v \o "_part_" \o ToString(k - 1))
              /\ call.children[k].id # call.chunk.id
              /\ call.children[k].pageName = call.chunk.pageName
              /\ call.children[k].href = call.chunk.href
        /\ \A j, k \in 1..Len(call.children) :
              j # k => call.children[j].id # call.children[k].id

\* a paragraph flush, a sentence flush and the character windows of the next
\* sentence share the counter
C14_Witness ==
    /\ SplitHappened /\ call.maxTokens = 1
    /\ call.chunk.fullContent.v = <<"a", "\n", "\n", ".", " ", "a", "a", "a", "a", "a">>
    /\ Len(call.children) = 4
    /\ call.children[1].fullContent.v = <<"a">>
    /\ call.children[2].fullContent.v = <<".">>
    /\ call.children[4].id = Str("page#s_part_3")

\* ------------------------------------------------------------------ claims on the parser

\* C15: the ids of the chunks one parseAndChunk run emits are pairwise
\* distinct, whatever the headings of the document (equal slugs and empty
\* heading texts included).
C15_ParsedIdsDistinct ==
    call.pc = "parsed" =>
        \A j, k \in 1..Len(call.chunks) : j # k => call.chunks[j].id # call.chunks[k].id

\* ------------------------------------------------------------------ claims on the embedder

\* generateEmbeddings has been called
GenCalled == gen.pc # "idle"

\* Math.ceil(n / 4), the estimated tokens of a text of n characters
TokensOfLength(n) == (n + 3) \div 4

RECURSIVE TokenSum(_, _)
TokenSum(texts, k) ==
    IF k > Len(texts) THEN 0 ELSE TokensOfLength(Len(texts[k])) + TokenSum(texts, k + 1)

\* the batches sent so far: the first request of each
BatchesSent == SelectSeq(gen.requests, LAMBDA r : r.attempt = 1)

RECURSIVE ConcatTexts(_, _)
ConcatTexts(batches, k) ==
    IF k > Len(batches) THEN <<>> ELSE batches[k].texts \o ConcatTexts(batches, k + 1)

\* C16: when generateEmbeddings returns, its result holds one EmbeddedChunk per
\* terminal chunk, in the terminal chunks' order, with the chunk's id,
\* pageName, href and fullContent and the vector of its own text; the batches
\* sent hold every terminal text once, in order.
C16_OneEmbeddedChunkPerTerminalChunk ==
    gen.pc = "return" =>
        /\ Len(gen.embedded) = Len(gen.normalized)
        /\ \A k \in 1..Len(gen.normalized) :
              gen.embedded[k] =
                  [gen.normalized[k] EXCEPT
                      !.embedding = Arr(EmbeddingOf(gen.normalized[k].fullContent.v))]
        /\ ConcatTexts(BatchesSent, 1) = textsOf(gen.normalized)

\* a chunk of 7001 tokens between two short ones: eleven terminal chunks, two batches
C16_Witness ==
    /\ gen.pc = "return" /\ Len(gen.input) = 3 /\ Len(gen.normalized) = 11
    /\ Len(gen.embedded) = 11 /\ Len(BatchesSent) = 2
    /\ gen.embedded[1].embedding # gen.embedded[2].embedding

\* C17: every batch passed to the embedding function is non-empty, holds at
\* most MAX_BATCH_SIZE texts and at most MAX_TOKENS_PER_BATCH estimated tokens.
C17_BatchWithinLimits ==
    GenCalled =>
        \A k \in 1..Len(gen.requests) :
            /\ Len(gen.requests[k].texts) >= 1
            /\ Len(gen.requests[k].texts) <= MAX_BATCH_SIZE
            /\ TokenSum(gen.requests[k].texts, 1) <= MAX_TOKENS_PER_BATCH

\* a batch closed by the token budget: 8 texts of 5901 tokens, the next chunk has 900
C17_Witness ==
    /\ GenCalled /\ Len(gen.requests) > 1
    /\ Len(gen.requests[1].texts) = 8
    /\ TokenSum(gen.requests[1].texts, 1) = 5901
    /\ TokensOfLength(Len(gen.requests[2].texts[1])) = 900

\* every terminal chunk is estimated at one token
OneTokenChunks == \A k \in 1..Len(gen.normalized) :
                     TokensOfLength(Len(gen.normalized[k].fullContent.v)) = 1

\* the number of texts sent in the batches before batch b
SentBefore(b) == Len(ConcatTexts(SubSeq(BatchesSent, 1, b - 1), 1))

\* C18: a batch is followed by another only if it holds MAX_BATCH_SIZE texts
\* or the next chunk would take it over MAX_TOKENS_PER_BATCH, and that chunk
\* is the first of the next batch; N chunks of one token each are sent as
\* ceil(N/50) batches, all of 50 except possibly the last.
C18_BatchClosedOnlyWhenFull ==
    GenCalled =>
        /\ \A b \in 1..(Len(BatchesSent) - 1) :
              /\ \/ Len(BatchesSent[b].texts) = MAX_BATCH_SIZE
                 \/ TokenSum(BatchesSent[b].texts, 1)
                      + TokensOfLength(Len(BatchesSent[b + 1].texts[1])) > MAX_TOKENS_PER_BATCH
              /\ BatchesSent[b + 1].texts[1] = gen.normalized[SentBefore(b + 1) + 1].fullContent.v
        /\ (gen.pc = "return" /\ OneTokenChunks) =>
              LET N == Len(gen.normalized)
                  nb == (N + MAX_BATCH_SIZE - 1) \div MAX_BATCH_SIZE
              IN  /\ Len(BatchesSent) = nb
                  /\ \A b \in 1..(nb - 1) : Len(BatchesSent[b].texts) = MAX_BATCH_SIZE
                  /\ Len(BatchesSent[nb].texts) = N - MAX_BATCH_SIZE * (nb - 1)

\* 51 chunks of one token: two batches, of 50 and of 1
C18_Witness ==
    /\ gen.pc = "return" /\ OneTokenChunks /\ Len(gen.normalized) = 51
    /\ Len(BatchesSent) = 2
    /\ Len(BatchesSent[1].texts) = 50 /\ Len(BatchesSent[2].texts) = 1

\* C19: no text passed to the embedding function is estimated above
\* MAX_TOKENS_PER_INPUT tokens, also when an input chunk is above it.
C19_NoTextAboveInputCeiling ==
    GenCalled =>
        \A k \in 1..Len(gen.requests) :
            \A j \in 1..Len(gen.requests[k].texts) :
                TokensOfLength(Len(gen.requests[k].texts[j])) <= MAX_TOKENS_PER_INPUT

\* an input chunk of 7001 tokens, whose pieces have all been sent
C19_Witness ==
    /\ gen.pc = "return" /\ Len(gen.requests) >= 2
    /\ \E k \in 1..Len(gen.input) :
          TokensOfLength(Len(gen.input[k].fullContent.v)) > MAX_TOKENS_PER_INPUT

\* a step in which the pending embedding request fails
EmbedRequestFails ==
    /\ gen.pc \in {"embed", "embedFinal"}
    /\ gen' # gen
    /\ gen'.embedded = gen.embedded

\* C20: a batch is sent at most MAX_RETRIES times, attempt k + 1 following
\* the failure of attempt k < MAX_RETRIES with the same texts; the failure of
\* attempt MAX_RETRIES is fatal, and no request is made after it.
C20_AtMostMaxRetriesPerBatch ==
    /\ [](GenCalled =>
            \A k \in 1..Len(gen.requests) :
                /\ gen.requests[k].attempt \in 1..MAX_RETRIES
                /\ gen.requests[k].attempt > 1 =>
                      /\ gen.requests[k - 1].attempt = gen.requests[k].attempt - 1
                      /\ gen.requests[k - 1].texts = gen.requests[k].texts)
    /\ [][EmbedRequestFails =>
            IF gen.attempt < MAX_RETRIES
            THEN /\ gen'.pc = gen.pc
                 /\ gen'.requests = Append(gen.requests,
                                           [texts |-> textsOf(gen.batch),
                                            attempt |-> gen.attempt + 1])
            ELSE /\ gen'.pc = "thrown"
                 /\ gen'.requests = gen.requests
                 /\ run'.pc = "exited"]_vars
    /\ [][gen.pc = "thrown" => gen' = gen]_vars

\* the first batch succeeded on its second attempt, the second failed three times
C20_Witness ==
    /\ gen.pc = "thrown" /\ Len(gen.requests) = 5
    /\ gen.requests[2].attempt = 2 /\ gen.requests[5].attempt = MAX_RETRIES
    /\ Len(gen.embedded) = MAX_BATCH_SIZE

\* ------------------------------------------------------------------ scraper
\* scrapePage and scrapeAll, called directly: call is the position of
\* scrapeAll in PAGES, the attempt scrapePage is at, the results pushed so far
\* and the requests sent so far (a history)

\* longest page list
MaxPages == 3

\* scrapePage(href, retries = 3)
DefaultRetries == 3

PageList == <<"a.html", "b.html", "c.html", "d.html">>

\* response.data of a successful GET of BASE_URL + href
HtmlOf(href) == "<html>" \o href

InitScrape ==
    /\ disk = [cache |-> AbsentFile, tmp |-> AbsentFile]
    /\ chunks = Arr(<<>>)
    /\ isLoaded = FALSE
    /\ loadCompleted = FALSE
    /\ out = [op |-> "none", kind |-> "none"]
    /\ run = IdleRun
    /\ gen = IdleGen
    /\ save = IdleSave
    /\ srv = IdleSrv
    /\ rt = IdleRt
    /\ \E n \in 0..MaxPages :
          call = [pc |-> "scrapeAll", PAGES |-> SubSeq(PageList, 1, n), page |-> 1,
                  attempt |-> 1, results |-> <<>>, requests |-> <<>>]

\* the request scrapePage is about to send
Fetching == call.pc = "scrapeAll" /\ call.page <= Len(call.PAGES)

requestOf(c, ok) == [href |-> c.PAGES[c.page], attempt |-> c.attempt, ok |-> ok]

\* axios.get resolved: scrapePage returns response.data, scrapeAll pushes the
\* page, waits 500 ms and goes to the next page
afterResponse(c) ==
    [c EXCEPT !.results = Append(c.results, [href |-> c.PAGES[c.page],
                                             html |-> HtmlOf(c.PAGES[c.page])]),
              !.requests = Append(c.requests, requestOf(c, TRUE)),
              !.page = c.page + 1,
              !.attempt = 1]

\* a bug the claims must exclude: the error of the last attempt leaves scrapeAll
afterError_CancelsRun(c) ==
    IF c.attempt = DefaultRetries
    THEN [c EXCEPT !.requests = Append(c.requests, requestOf(c, FALSE)),
                   !.pc = "thrown"]
    ELSE [c EXCEPT !.requests = Append(c.requests, requestOf(c, FALSE)),
                   !.attempt = c.attempt + 1]

\* axios.get rejected: before the last attempt scrapePage waits and tries
\* again; at the last attempt it throws, scrapeAll logs and goes to the next page
afterError(c) ==
    IF c.attempt = DefaultRetries
    THEN [c EXCEPT !.requests = Append(c.requests, requestOf(c, FALSE)),
                   !.page = c.page + 1,
                   !.attempt = 1]
    ELSE [c EXCEPT !.requests = Append(c.requests, requestOf(c, FALSE)),
                   !.attempt = c.attempt + 1]

FetchOk ==
    /\ Fetching
    /\ call' = afterResponse(call)
    /\ UNCHANGED <<disk, engineVars, setupVars, rt, srv>>

FetchFail ==
    /\ Fetching
    /\ call' = afterError(call)
    /\ UNCHANGED <<disk, engineVars, setupVars, rt, srv>>

\* return results
ScrapeReturn ==
    /\ call.pc = "scrapeAll" /\ call.page > Len(call.PAGES)
    /\ call' = [call EXCEPT !.pc = "returned"]
    /\ UNCHANGED <<disk, engineVars, setupVars, rt, srv>>

NextScrape == FetchOk \/ FetchFail \/ ScrapeReturn

SpecScrape == InitScrape /\ [][NextScrape]_vars

\* ------------------------------------------------------------------ server
\* index.ts: the module body, main and the CallTool request handler.  The
\* transport delivers requests to the handler once server.connect has run.

\* request.params.arguments: absent, or an object with query and with topK and
\* minScore absent, in range or out of range (the advertised ranges are 1..50
\* and 0..1)
ArgTopKs == {Undef, Num(-1), Num(51)}
ArgMinScores == {Undef, Num(Score(2, 1))}
Arguments ==
    {Undef} \cup {[t |-> "object", query |-> Str("q"), topK |-> k, minScore |-> ms] :
                     k \in ArgTopKs, ms \in ArgMinScores}

ToolNames == {"searchDocs", "otherTool"}

\* what openaiClient.embeddings.create does: it rejects, or it resolves with a
\* data array that is empty or holds one embedding
EmbeddingReplies ==
    {[kind |-> "rejected"], [kind |-> "resolved", data |-> <<>>]}
    \cup {[kind |-> "resolved", data |-> <<[embedding |-> q]>>] :
             q \in {<<1>>, <<1, 0>>}}

\* the handler returned { content: [{ type: "text", text }] }
TextResponse(text, detail) == [envelope |-> "text", text |-> text, detail |-> detail]

\* the handler threw: the protocol layer gets the exception
Thrown(error) == [envelope |-> "exception", error |-> error]

NoRequest == [name |-> "none"]
NoResponse == [envelope |-> "none"]

\* const { query, topK = 10, minScore = 0.1 } = request.params.arguments
topKOf(args) == IF args.topK = Undef THEN DefaultTopK ELSE args.topK.v
minScoreOf(args) == IF args.minScore = Undef THEN DefaultMinScore ELSE args.minScore.v

\* the CallTool handler as a function of the engine's fields, the request and
\* the reply of the embeddings endpoint: the response, and the engine call made
handleCallTool(loaded, chunksVal, name, args, reply) ==
    IF name # "searchDocs"
    THEN [response |-> Thrown("UnknownTool"), searched |-> FALSE]
    ELSE IF args = Undef                      \* destructuring of undefined, before the try
    THEN [response |-> Thrown("TypeError"), searched |-> FALSE]
    ELSE IF reply.kind = "rejected"
    THEN [response |-> TextResponse("Error searching documentation", "APIError"),
          searched |-> FALSE]
    ELSE IF reply.data = <<>>                 \* data[0].embedding of undefined
    THEN [response |-> TextResponse("Error searching documentation", "TypeError"),
          searched |-> FALSE]
    ELSE LET r == search(loaded, chunksVal, reply.data[1].embedding,
                         topKOf(args), minScoreOf(args))
         IN  [response |->
                  IF r.kind # "ok"
                  THEN TextResponse("Error searching documentation", r.kind)
                  ELSE IF Len(r.results) = 0
                  THEN TextResponse("No relevant documentation found", "none")
                  ELSE TextResponse("Found", Len(r.results)),
              searched |-> TRUE, outcome |-> r]

\* a bug the claims must exclude: main connects the transport whatever the
\* load did
mainAfterLoad_ConnectsAnyway(loadKind, statsKind) ==
    [pc |-> "loaded", request |-> NoRequest, response |-> NoResponse]

\* main after loadCache and getStats: an exception of either reaches the catch,
\* which calls process.exit(1)
mainAfterLoad(loadKind, statsKind) ==
    IF loadKind # "ok" \/ statsKind # "ok"
    THEN [pc |-> "exited", exitCode |-> 1, request |-> NoRequest, response |-> NoResponse]
    ELSE [pc |-> "loaded", request |-> NoRequest, response |-> NoResponse]

\* the cache files a server may find: the malformed ones and the well-formed
\* corpora over two embeddings
ServerFiles ==
    MalformedDocs
    \cup {CacheDoc(Corpus(e)) : e \in SeqsUpTo({<<1, 0>>, <<2, 1>>}, MaxChunks)}

InitServer ==
    /\ disk \in {[cache |-> f, tmp |-> AbsentFile] : f \in ServerFiles}
    /\ chunks = Arr(<<>>)
    /\ isLoaded = FALSE
    /\ loadCompleted = FALSE
    /\ out = [op |-> "none", kind |-> "none"]
    /\ run = IdleRun
    /\ gen = IdleGen
    /\ save = IdleSave
    /\ rt = IdleRt
    /\ call = IdleCall
    /\ srv \in {[pc |-> "module", apiKey |-> k,
                  request |-> NoRequest, response |-> NoResponse] : k \in BOOLEAN}

\* the module body: without OPENAI_API_KEY it throws and node exits with status 1
ServerModule ==
    /\ srv.pc = "module"
    /\ srv' = IF srv.apiKey
              THEN [pc |-> "main", request |-> NoRequest, response |-> NoResponse]
              ELSE [pc |-> "exited", exitCode |-> 1,
                    request |-> NoRequest, response |-> NoResponse]
    /\ UNCHANGED <<disk, engineVars, setupVars, rt, call>>

\* main: await searchEngine.loadCache(); searchEngine.getStats()
ServerLoad ==
    /\ srv.pc = "main"
    /\ LET r == engineLoadCache(disk.cache, chunks, isLoaded)
           stats == getStats(r.isLoaded, r.chunks)
       IN  /\ chunks' = r.chunks
           /\ isLoaded' = r.isLoaded
           /\ loadCompleted' = (loadCompleted \/ r.kind = "ok")
           /\ out' = IF r.kind = "ok" THEN stats ELSE [op |-> "loadCache", kind |-> r.kind]
           /\ srv' = mainAfterLoad(r.kind, IF r.kind = "ok" THEN stats.kind ELSE "ok")
    /\ UNCHANGED <<disk, setupVars, rt, call>>

\* await server.connect(transport)
ServerConnect ==
    /\ srv.pc = "loaded"
    /\ srv' = [srv EXCEPT !.pc = "connected"]
    /\ UNCHANGED <<disk, engineVars, setupVars, rt, call>>

\* server.connect rejects: the catch of main calls process.exit(1)
ServerConnectFails ==
    /\ srv.pc = "loaded"
    /\ srv' = [pc |-> "exited", exitCode |-> 1, request |-> NoRequest, response |-> NoResponse]
    /\ UNCHANGED <<disk, engineVars, setupVars, rt, call>>

\* a tools/call request arrives and the handler answers it
HandleCallTool(name, args, reply) ==
    /\ srv.pc = "connected"
    /\ LET h == handleCallTool(isLoaded, chunks, name, args, reply)
       IN  /\ srv' = [srv EXCEPT !.request = [name |-> name, arguments |-> args, reply |-> reply],
                                 !.response = h.response]
           /\ out' = IF h.searched THEN h.outcome ELSE out
    /\ UNCHANGED <<disk, chunks, isLoaded, loadCompleted, setupVars, rt, call>>

HandleAnyCallTool ==
    \E name \in ToolNames, args \in Arguments, reply \in EmbeddingReplies :
        HandleCallTool(name, args, reply)

NextServer ==
    ServerModule \/ ServerLoad \/ ServerConnect \/ ServerConnectFails \/ HandleAnyCallTool

SpecServer == InitServer /\ [][NextServer]_vars

\* ------------------------------------------------------------------ reloads
\* The engine of a running server, with loadCache called again at any time
\* and the cache file replaced between the calls (by a setup run of another
\* process).  loadCache, search and getStats contain no await: each call runs
\* to completion before another callback of the process starts.

OldCorpus == Corpus([i \in 1..MaxChunks |-> IF i % 2 = 1 THEN <<1, 0>> ELSE <<2, 1>>])
NewCorpus == Corpus([i \in 1..MaxChunks |-> IF i % 2 = 1 THEN <<2, 1>> ELSE <<-1, 0>>])

\* what a load may find at cachePath
ReloadFiles ==
    {AbsentFile, GarbageFile, PartialFile(CacheDoc(NewCorpus)),
     CacheDoc(OldCorpus), CacheDoc(NewCorpus), CacheDoc(Undef)}

InitReload ==
    /\ disk \in {[cache |-> f, tmp |-> AbsentFile] : f \in ReloadFiles}
    /\ chunks = Arr(<<>>)
    /\ isLoaded = FALSE
    /\ loadCompleted = FALSE
    /\ out = [op |-> "none", kind |-> "none"]
    /\ run = IdleRun
    /\ gen = IdleGen
    /\ save = IdleSave
    /\ rt = IdleRt
    /\ call = IdleCall
    /\ srv = IdleSrv

\* another process replaces the file at cachePath
ReplaceCache(f) ==
    /\ disk.cache # f
    /\ disk' = [disk EXCEPT !.cache = f]
    /\ UNCHANGED <<engineVars, setupVars, rt, call, srv>>

ReplaceCacheAny == \E f \in ReloadFiles : ReplaceCache(f)

NextReload ==
    \/ LoadCache
    \/ SearchAny
    \/ GetStats
    \/ ReplaceCacheAny

SpecReload == InitReload /\ [][NextReload]_vars

\* ------------------------------------------------------------------ cosineSimilarity, called directly

\* longest vector
MaxDim == 3

Components == {-1, 0, 1}

Vectors == SeqsUpTo(Components, MaxDim)

InitCosine ==
    /\ disk = [cache |-> AbsentFile, tmp |-> AbsentFile]
    /\ chunks = Arr(<<>>)
    /\ isLoaded = FALSE
    /\ loadCompleted = FALSE
    /\ out = [op |-> "none", kind |-> "none"]
    /\ run = IdleRun
    /\ gen = IdleGen
    /\ save = IdleSave
    /\ rt = IdleRt
    /\ srv = IdleSrv
    /\ call \in {[pc |-> "input", a |-> a, b |-> b] : a \in Vectors, b \in Vectors}

\* this.cosineSimilarity(a, b)
CosineSimilarity ==
    /\ call.pc = "input"
    /\ call' = [pc |-> "returned", a |-> call.a, b |-> call.b,
                result |-> cosineSimilarity(call.a, Arr(call.b))]
    /\ UNCHANGED <<disk, engineVars, setupVars, rt, srv>>

NextCosine == CosineSimilarity

SpecCosine == InitCosine /\ [][NextCosine]_vars

\* ------------------------------------------------------------------ claims C21..C30

\* the pages of PAGES a request for which succeeded, in PAGES order
FetchedPages ==
    SelectSeq(call.PAGES,
              LAMBDA h : \E k \in 1..Len(call.requests) :
                            call.requests[k].href = h /\ call.requests[k].ok)

\* every attempt at the page failed
FetchFailed(h) ==
    /\ \E k \in 1..Len(call.requests) : call.requests[k].href = h
    /\ \A k \in 1..Len(call.requests) : call.requests[k].href = h => ~call.requests[k].ok

\* C21: when scrapeAll is over it has returned (a page whose fetch failed after
\* its retries did not cancel the run), every page of PAGES was requested, and
\* the result holds exactly the pages whose fetch succeeded, in PAGES order.
C21_FailedPageIsSkipped ==
    (call.pc \in {"returned", "thrown"})
        => /\ call.pc = "returned"
           /\ \A i \in 1..Len(call.PAGES) :
                 \E k \in 1..Len(call.requests) : call.requests[k].href = call.PAGES[i]
           /\ [i \in 1..Len(call.results) |-> call.results[i].href] = FetchedPages
           /\ \A i \in 1..Len(call.results) :
                 call.results[i].html = HtmlOf(call.results[i].href)

\* the second of three pages failed three times, the others were fetched
C21_Witness ==
    /\ call.pc = "returned"
    /\ call.PAGES = <<"a.html", "b.html", "c.html">>
    /\ FetchFailed("b.html")
    /\ Cardinality({k \in 1..Len(call.requests) : call.requests[k].href = "b.html"})
          = DefaultRetries
    /\ [i \in 1..Len(call.results) |-> call.results[i].href] = <<"a.html", "c.html">>

\* the handler has answered a searchDocs request
SearchDocsHandled == srv.pc = "connected" /\ srv.request.name = "searchDocs"

\* C22: every searchDocs call, whatever its arguments (present or absent) and
\* whatever fails during the query, is answered with a text response; no
\* exception reaches the protocol layer.
C22_HandlerAlwaysReturnsText ==
    SearchDocsHandled => srv.response.envelope = "text"

\* C23: the handler passes to SearchEngine.search only a topK in 1..50 and a
\* minScore in [0, 1] (10 and 0.1 when omitted).
C23_BoundsEnforcedAtBoundary ==
    (SearchDocsHandled /\ out.op = "search")
        => /\ out.topK \in 1..50
           /\ ScoreGE(out.minScore, Score(0, 1))
           /\ ScoreGE(Score(1, 1), out.minScore)
           /\ srv.request.arguments.topK = Undef => out.topK = DefaultTopK
           /\ srv.request.arguments.minScore = Undef => out.minScore = DefaultMinScore

\* C26: the transport is connected, and a request handled, only after
\* searchEngine.loadCache has completed successfully; when the load fails the
\* process exits with status 1 and has served no request.
C26_ConnectsOnlyAfterLoad ==
    /\ srv.pc \in {"loaded", "connected"}
          => loadCompleted /\ isLoaded /\ disk.cache.kind = "json"
    /\ srv.request # NoRequest => srv.pc = "connected"
    /\ (srv.pc \notin {"module", "main"} /\ disk.cache.kind # "json")
          => srv.pc = "exited" /\ srv.exitCode = 1 /\ srv.request = NoRequest

\* a request was answered by a server that had loaded a corpus of three chunks
C26_Witness ==
    /\ SearchDocsHandled
    /\ srv.response.envelope = "text" /\ srv.response.text = "Found"
    /\ loadCompleted /\ IsArray(chunks) /\ Len(chunks.v) = 3

\* the headings of the document that start a section: those not inside the
\* span of an earlier heading
SectionHeads(doc) ==
    {p \in 1..Len(doc) :
        /\ doc[p].tag \in {"h1", "h2", "h3", "h4"}
        /\ ~\E q \in 1..(p - 1) :
               /\ doc[q].tag \in {"h1", "h2", "h3", "h4"}
               /\ spanEnd(doc, q, q + 1) >= p}

\* C24: a heading deeper than the current section's heading is absorbed into
\* the current section's chunk and gets no chunk of its own: a document with
\* headings yields at most one chunk per heading that starts a section.
C24_DeeperHeadingNotSplitOut ==
    (call.pc = "parsed" /\ headingsOf(call.doc) # <<>>)
        => Len(call.chunks) <= Cardinality(SectionHeads(call.doc))

\* the chunks member of the files a load can read whole
WholeCorpora == {f.chunks : f \in {g \in ReloadFiles : g.kind = "json"}}

\* C25: under every interleaving of loads, reloads, searches and getStats
\* calls no partial load is visible: before the first load the list is empty,
\* once the flag is true the list is the whole chunks member of a file that
\* was read, and the results of a search are those of a scan of one whole corpus.
C25_NoPartialLoadVisible ==
    /\ ~isLoaded => chunks = Arr(<<>>)
    /\ isLoaded => chunks \in WholeCorpora
    /\ (out.op = "search" /\ out.kind = "ok")
          => \E c \in WholeCorpora :
                out = search(TRUE, c, out.q, out.topK, out.minScore)
    /\ (out.op = "getStats" /\ out.kind = "ok" /\ out.isLoaded)
          => \E c \in WholeCorpora :
                out = getStats(TRUE, c)

\* a reload found a half-written file and failed: the engine still holds the
\* whole corpus of the first load
C25_Witness ==
    /\ disk.cache = PartialFile(CacheDoc(NewCorpus))
    /\ out = [op |-> "loadCache", kind |-> "SyntaxError"]
    /\ isLoaded /\ chunks = OldCorpus

IsZeroVector(v) == \A i \in 1..Len(v) : v[i] = 0

\* cosineSimilarity was called on two vectors of one length
CosineReturned == call.pc = "returned" /\ Len(call.a) = Len(call.b)

\* C27: cosineSimilarity(a, b) returns exactly 0 whenever a or b is the zero
\* vector (of equal length): no division by zero, no non-numeric score.
C27_ZeroVectorScoresZero ==
    (CosineReturned /\ (IsZeroVector(call.a) \/ IsZeroVector(call.b)))
        => /\ call.result.err = "none"
           /\ call.result.score = Score(0, 1)

\* a zero query against a non-zero embedding, and the result 0
C27_Witness ==
    /\ CosineReturned
    /\ call.a = <<0, 0>> /\ call.b = <<1, -1>>
    /\ call.result = [err |-> "none", score |-> Score(0, 1)]

\* C28: for all pairs of equal-length vectors cosineSimilarity(a, b) lies in
\* [-1, 1], and cosineSimilarity(a, a) = 1 for every non-zero a.
C28_CosineWithinBoundsAndOneOnSelf ==
    CosineReturned
        => /\ call.result.err = "none"
           /\ ScoreGE(Score(1, 1), call.result.score)
           /\ ScoreGE(call.result.score, Score(-1, 1))
           /\ (call.a = call.b /\ ~IsZeroVector(call.a))
                 => call.result.score = Score(1, 1)

\* the cache file the setup run found exists and loads as valid
ValidCacheAtStart ==
    /\ getCacheInfo(run.disk0.cache).exists
    /\ loadCache(run.disk0.cache) # Null

\* the run has gone past the decision to rebuild
Rebuilding ==
    \/ run.pc \in {"clear", "env", "scrape", "embedding", "save", "exited"}
    \/ gen # IdleGen \/ save # IdleSave \/ run.saveCalled

\* C29: with a cache file that exists and loads as valid and without --force,
\* setup returns without scraping, embedding, clearing or writing anything and
\* leaves the files as they were; a run rebuilds only with --force or when the
\* cache it found is not valid.
C29_ValidCacheSkipsSetup ==
    /\ (run.pc # "idle" /\ ValidCacheAtStart /\ ~run.force)
          => /\ ~Rebuilding
             /\ disk = run.disk0
             /\ run.exitCode = 0
    /\ (run.pc # "idle" /\ Rebuilding) => (run.force \/ ~ValidCacheAtStart)

\* setup returned at once on a valid cache, without --force
C29_Witness ==
    /\ run.pc = "done" /\ ~run.force /\ ValidCacheAtStart
    /\ disk.cache = OldDoc /\ disk = run.disk0
    /\ gen = IdleGen /\ save = IdleSave

\* the batches whose embedding request has succeeded
BatchesEmbedded ==
    IF gen.pc \in {"embed", "embedFinal", "thrown"}
    THEN SubSeq(BatchesSent, 1, Len(BatchesSent) - 1)
    ELSE BatchesSent

DelaysOfKind(kind) == SelectSeq(gen.delays, LAMBDA d : d.kind = kind)

\* C30: a fixed pacing delay follows each successfully embedded batch, the
\* last one of the run included, and it is separate from the backoff delays of
\* the retries: there is one pacing delay of 1000 ms per embedded batch and one
\* backoff delay per retry.
C30_PacingDelayAfterEveryBatch ==
    GenCalled =>
        /\ Len(DelaysOfKind("pacing")) = Len(BatchesEmbedded)
        /\ \A k \in 1..Len(gen.delays) :
              gen.delays[k].kind = "pacing" => gen.delays[k].ms = 1000
        /\ Len(DelaysOfKind("backoff"))
              = Len(SelectSeq(gen.requests, LAMBDA r : r.attempt > 1))

\* ------------------------------------------------------------------ generateEmbeddings, called directly
\* generateEmbeddings is exported and takes any Chunk[]: here it is called on
\* the chunk lists of a setup run and on a list with a chunk whose content is
\* blank (a string the type allows and parseAndChunk never produces)

\* a content of 7001 estimated tokens made of spaces only
BlankText == [i \in 1..28001 |-> " "]

EmbedInputs ==
    ParsedChunkLists
    \cup {<<SetupChunk(1), LongChunk("blank", BlankText), SetupChunk(2)>>}

InitEmbed ==
    /\ disk = [cache |-> AbsentFile, tmp |-> AbsentFile]
    /\ chunks = Arr(<<>>)
    /\ isLoaded = FALSE
    /\ loadCompleted = FALSE
    /\ out = [op |-> "none", kind |-> "none"]
    /\ run = IdleRun
    /\ save = IdleSave
    /\ rt = IdleRt
    /\ call = IdleCall
    /\ srv = IdleSrv
    /\ gen \in {generateEmbeddingsBegin(cs) : cs \in EmbedInputs}

\* the embedding request of the current batch succeeds
GenEmbedOk ==
    /\ gen.pc \in {"embed", "embedFinal"}
    /\ gen' = IF gen.pc = "embed"
              THEN runLoop([gen EXCEPT !.pc = "loop", !.embedded = embedCurrentBatch(gen),
                                       !.delays = Append(gen.delays, pacingDelay),
                                       !.batch = <<>>, !.batchTokens = 0])
              ELSE [gen EXCEPT !.pc = "return", !.embedded = embedCurrentBatch(gen)]
    /\ UNCHANGED <<disk, engineVars, run, save, rt, call, srv>>

\* the embedding request of the current batch fails: a retry, or the throw
GenEmbedFail ==
    /\ gen.pc \in {"embed", "embedFinal"}
    /\ gen' = IF gen.attempt >= MAX_RETRIES
              THEN [gen EXCEPT !.pc = "thrown"]
              ELSE embedBatch(gen, gen.attempt + 1)
    /\ UNCHANGED <<disk, engineVars, run, save, rt, call, srv>>

NextEmbed == GenEmbedOk \/ GenEmbedFail

SpecEmbed == InitEmbed /\ [][NextEmbed]_vars

\* every embedding call returns or fails
SpecEmbedFair == SpecEmbed /\ WF_vars(NextEmbed)

\* ------------------------------------------------------------------ cache paths
\* The path saveCache writes (cache.ts getCachePath) and the path
\* SearchEngine.loadCache reads (index.ts cacheDir, search.ts), as functions of
\* the environment.  A path string is [abs |-> it starts with "/", segs |-> its
\* segments]; "" is [abs |-> FALSE, segs |-> <<>>]; an unset variable is Undef.

\* longest CACHE_DIR, in segments
MaxPathLen == 2

PathOf(abs, segs) == [abs |-> abs, segs |-> segs]

EmptyPath == PathOf(FALSE, <<>>)

\* a variable of process.env is truthy when it is set and not ""
IsSet(v) == v # Undef /\ v # EmptyPath

\* path.join(a, b): the segments of both, "." dropped; absolute when the first
\* non-empty argument is
pathJoin(a, b) ==
    PathOf(IF a = EmptyPath THEN b.abs ELSE a.abs,
           SelectSeq(a.segs \o b.segs, LAMBDA x : x # "."))

\* filePath.startsWith('~/')
startsWithTildeSlash(p) == ~p.abs /\ Len(p.segs) >= 2 /\ p.segs[1] = "~"

\* expandTildeInPath(filePath) with process.env.HOME = home
expandTildeInPath(p, home) ==
    IF startsWithTildeSlash(p)
    THEN pathJoin(IF IsSet(home) THEN home ELSE EmptyPath, PathOf(FALSE, Tail(p.segs)))
    ELSE p

\* path.join(process.cwd(), 'data')
defaultCacheDir(cwd) == pathJoin(cwd, PathOf(FALSE, <<"data">>))

\* getCacheDir() of the cache store
getCacheDir(env) ==
    IF IsSet(env.CACHE_DIR) THEN expandTildeInPath(env.CACHE_DIR, env.HOME)
    ELSE defaultCacheDir(env.cwd)

\* getCachePath(): the file saveCache writes
getCachePath(env) == pathJoin(getCacheDir(env), PathOf(FALSE, <<"embeddings.json">>))

\* index.ts: process.env.CACHE_DIR || path.join(process.cwd(), 'data'), handed
\* to the SearchEngine constructor (cacheDir || path.join(process.cwd(), 'data'))
serverCacheDir(env) ==
    LET cacheDir == IF IsSet(env.CACHE_DIR) THEN env.CACHE_DIR ELSE defaultCacheDir(env.cwd)
    IN  IF IsSet(cacheDir) THEN cacheDir ELSE defaultCacheDir(env.cwd)

\* the file SearchEngine.loadCache reads
engineCachePath(env) == pathJoin(serverCacheDir(env), PathOf(FALSE, <<"embeddings.json">>))

\* the file a path names for a process whose working directory is cwd
resolveFrom(cwd, p) == IF p.abs THEN p ELSE pathJoin(cwd, p)

Segments == {"~", ".", "data", "gmat"}

CacheDirSettings ==
    {Undef} \cup {PathOf(abs, segs) : abs \in BOOLEAN, segs \in SeqsUpTo(Segments, MaxPathLen)}

Environments ==
    {[CACHE_DIR |-> d, HOME |-> h, cwd |-> PathOf(TRUE, <<"srv", "app">>)] :
        d \in CacheDirSettings, h \in {Undef, PathOf(TRUE, <<"home", "u">>)}}

InitPaths ==
    /\ disk = [cache |-> AbsentFile, tmp |-> AbsentFile]
    /\ chunks = Arr(<<>>)
    /\ isLoaded = FALSE
    /\ loadCompleted = FALSE
    /\ out = [op |-> "none", kind |-> "none"]
    /\ run = IdleRun
    /\ gen = IdleGen
    /\ save = IdleSave
    /\ rt = IdleRt
    /\ srv = IdleSrv
    /\ call \in {[pc |-> "env", env |-> e] : e \in Environments}

\* setup and the server each compute the path of the cache file
ResolveCachePaths ==
    /\ call.pc = "env"
    /\ call' = [pc |-> "paths", env |-> call.env,
                written |-> resolveFrom(call.env.cwd, getCachePath(call.env)),
                read |-> resolveFrom(call.env.cwd, engineCachePath(call.env))]
    /\ UNCHANGED <<disk, engineVars, setupVars, rt, srv>>

NextPaths == ResolveCachePaths

SpecPaths == InitPaths /\ [][NextPaths]_vars

\* ------------------------------------------------------------------ claims C31..C35

\* the position in the corpus of the chunk of the i-th result
CorpusPosition(i) == CHOOSE p \in 1..Len(chunks.v) : chunks.v[p] = out.results[i].chunk

SameScore(x, y) == ScoreGE(x, y) /\ ScoreGE(y, x)

\* C31: among results of equal score, search returns the chunks in corpus
\* order, and the result is a function of the corpus and the arguments.
C31_TiesInCorpusOrder ==
    (SearchReturned /\ out.kind = "ok")
        => /\ \A i, j \in 1..Len(out.results) :
                 (i < j /\ SameScore(out.results[i].score, out.results[j].score))
                     => CorpusPosition(i) < CorpusPosition(j)
           /\ out = search(isLoaded, chunks, out.q, out.topK, out.minScore)

\* the first and the third chunk score 1, the second scores less: the results
\* are the first, the third, the second
C31_Witness ==
    /\ SearchReturned /\ out.kind = "ok" /\ out.q = <<1, 0>>
    /\ Len(chunks.v) = 3 /\ Len(out.results) = 3
    /\ chunks.v[1].embedding = Arr(<<1, 0>>)
    /\ chunks.v[2].embedding = Arr(<<2, 1>>)
    /\ chunks.v[3].embedding = Arr(<<1, 0>>)
    /\ out.results[1].chunk = chunks.v[1]
    /\ out.results[2].chunk = chunks.v[3]
    /\ out.results[3].chunk = chunks.v[2]

C33_FailedLoadChangesNothing ==
    [][(out'.op = "loadCache" /\ out'.kind # "ok")
          => (chunks' = chunks /\ isLoaded' = isLoaded)]_vars

\* the file was removed after a load and a reload failed: the engine still
\* holds the corpus it had loaded
C33_Witness ==
    /\ disk.cache = AbsentFile
    /\ out = [op |-> "loadCache", kind |-> "CacheNotFound"]
    /\ isLoaded /\ chunks = NewCorpus

\* the positions of the corpus chunks whose score is at least minScore
QualifyingPositions ==
    {p \in 1..Len(chunks.v) : ScoreGE(ScoreOf(out.q, chunks.v[p]), out.minScore)}

\* the positions of the chunks search returned
ReturnedPositions == {CorpusPosition(i) : i \in 1..Len(out.results)}

\* C34: for topK >= 0 search returns min(topK, number of qualifying chunks)
\* results, each a different qualifying chunk with its score, in descending
\* order, and no qualifying chunk left out has a strictly higher score than a
\* returned one.
C34_ExactlyTheTopK ==
    (SearchReturned /\ out.topK >= 0)
        => /\ Len(out.results) = Min(out.topK, Cardinality(QualifyingPositions))
           /\ \A i \in 1..Len(out.results) :
                 /\ \E p \in QualifyingPositions : out.results[i].chunk = chunks.v[p]
                 /\ out.results[i].score = ScoreOf(out.q, out.results[i].chunk)
           /\ Cardinality(ReturnedPositions) = Len(out.results)
           /\ \A i \in 1..(Len(out.results) - 1) :
                 ScoreGE(out.results[i].score, out.results[i + 1].score)
           /\ \A p \in QualifyingPositions \ ReturnedPositions :
                 \A i \in 1..Len(out.results) :
                     ScoreGE(out.results[i].score, ScoreOf(out.q, chunks.v[p]))

\* three qualifying chunks and topK = 1: the result is the last chunk of the
\* corpus, whose score is the highest
C34_Witness ==
    /\ SearchReturned /\ out.topK = 1 /\ out.q = <<1, 0>> /\ out.minScore = Score(0, 1)
    /\ Len(chunks.v) = 3 /\ Cardinality(QualifyingPositions) = 3
    /\ chunks.v[3].embedding = Arr(<<1, 0>>)
    /\ chunks.v[2].embedding = Arr(<<2, 1>>)
    /\ out.results = <<[chunk |-> chunks.v[3], score |-> ScoreOf(out.q, chunks.v[3])]>>

\* C35: for every value of CACHE_DIR (unset, relative, absolute, starting with
\* ~/) the file saveCache writes is the file SearchEngine.loadCache reads,
\* both processes running from one working directory.
C35_SetupAndServerUseOnePath ==
    call.pc = "paths" => call.written = call.read

====
